---- MODULE Spec2Model ----
(***************************************************************************)
(* A model of the kwartz dashboard front end:                              *)
(*   - Dashboard        (src/src/components/HtmlWidget.tsx, lines 568-805) *)
(*     the widget list and the debounced layout persistence;               *)
(*   - HtmlWidget       (src/src/components/HtmlWidget.tsx, lines 448-547) *)
(*     the content fetch of one widget and its cancellation flag;          *)
(*   - WidgetConfigModal (src/unnamed/part_000) the test call and the      *)
(*     response path picker;                                               *)
(*   - the pure helpers the three use (isImageUrl, detectContentType,      *)
(*     extractValueFromPath).                                              *)
(* JavaScript strings are sequences of one-character strings, so that      *)
(* lower-casing, splitting, prefixes and suffixes are computed.            *)
(***************************************************************************)
EXTENDS Integers, Sequences, FiniteSets, TLC

VARIABLES
  \* ---- Dashboard (React state, refs, the browser's timer table) ----
  widgets,           \* useState<Widget[]>          the in-memory widget list
  dashLoading,       \* useState(true)              Dashboard's loading
  dashError,         \* useState<string|null>       Dashboard's error
  pendingLayoutRef,  \* useRef<Layout|null>         the pending snapshot
  saveTimeoutRef,    \* useRef<number|null>         handle of the last timer (0: null)
  timers,            \* the browser's armed timers: {[id, due]}
  nextTimerId,       \* the handle window.setTimeout returns next
  now,               \* the clock, in ms
  events,            \* log: the layout-change events handled, [t, layout]
  calls,             \* log: the bulkUpdateLayout calls issued
  logged,            \* number of console.error lines written by saveLayout
  unhandled,         \* number of rejections that escaped a handler
  deletes,           \* log: the runs of handleDeleteWidget, [id, confirmed, status]
  alerts,            \* number of alert() dialogs shown
  edits,             \* log: the runs of handleSaveWidget, [id, name, status]
  backend,           \* the widget records the backend holds
  instances,         \* the HtmlWidget children of the grid, [key, widgetId, fetch,
                     \* loading, content, contentType, error]
  contentFetches,    \* log: the content fetches issued, [id, cause]
  \* ---- HtmlWidget ----
  content, contentUrl, contentType, error, loading,
  widgetId,          \* the widgetId prop
  mounted,           \* the component is mounted
  effects,           \* the runs of the [widgetId] effect: [widgetId, cancelled, status]
  lastCompletion,    \* log: the fetch completion handled last
  \* ---- WidgetConfigModal ----
  apiEndpoint, apiKey, apiKeyHeader, reportId, responseUrlPath, cfgContentUrl,
  testing, testResult, testError, testData,
  testCalls,         \* log: the testWidgetApi calls issued, [request, status]
  lastOp,            \* log: the handler that ran last, with its argument
  name, saving,
  editingWidget,     \* Dashboard's editingWidget, the modal's widget prop (or null)
  saved,             \* log: the payload handed to onSave last
  \* ---- the pure helpers, called on their own ----
  detectArgs,        \* the arguments of the last detectContentType call
  detected,          \* what it returned
  csvText,           \* the argument of the last parseCSV call
  csvRows,           \* what it returned
  extractArgs,       \* the arguments of the last extractValueFromPath call
  extracted          \* [called, value]: what it returned

dashVars == <<widgets, dashLoading, dashError, pendingLayoutRef, saveTimeoutRef,
              timers, nextTimerId, now, events, calls, logged, unhandled,
              deletes, alerts, edits, backend, instances,
              contentFetches>>
widgetVars == <<content, contentUrl, contentType, error, loading, widgetId,
                mounted, effects, lastCompletion>>
modalVars == <<apiEndpoint, apiKey, apiKeyHeader, reportId, responseUrlPath,
               cfgContentUrl, testing, testResult, testError, testData,
               testCalls, lastOp, name, saving, editingWidget,
               saved>>
formVars == <<name, saving, editingWidget, saved>>
helperVars == <<detectArgs, detected, csvText, csvRows, extractArgs,
                extracted>>
vars == <<dashVars, widgetVars, modalVars, helperVars>>

(***************************************************************************)
(* Bounds of the model.                                                    *)
(***************************************************************************)
MaxEvents == 2
MaxTime == 1250
TickMs == 250
MaxFetches == 2
MaxTests == 2
MaxCsvLen == 3
MaxDeletes == 2
MaxSaves == 1

(***************************************************************************)
(* JavaScript values.                                                      *)
(***************************************************************************)
\* null and undefined of a string-typed slot: a token that is no character.
NullStr == <<"null">>
\* undefined of a number-typed slot (LayoutItem.minW, LayoutItem.minH).
Undefined == -1
\* JavaScript truthiness of a string | null value.
Truthy(s) == s # NullStr /\ s # <<>>

Min(S) == CHOOSE m \in S : \A n \in S : m <= n

(***************************************************************************)
(*                              Dashboard                                  *)
(***************************************************************************)
\* The delay handed to window.setTimeout.
DebounceMs == 500

NullRef == [isNull |-> TRUE, layout |-> <<>>]
Ref(l) == [isNull |-> FALSE, layout |-> l]

\* The widgets the backend holds (GET /widgets): id, layout and a stand-in
\* (name) for the fields that are no layout.
BackendWidget1 ==
  [id |-> "w1", name |-> "Sales",
   layout |-> [x |-> 0, y |-> 0, w |-> 4, h |-> 3, minW |-> 2, minH |-> 2]]
BackendWidget2 ==
  [id |-> "w2", name |-> "Stock",
   layout |-> [x |-> 4, y |-> 0, w |-> 6, h |-> 2, minW |-> 3, minH |-> 1]]
BackendWidgetLists == { <<BackendWidget1>>, <<BackendWidget1, BackendWidget2>> }

\* What the grid can report for one item: position, size and the optional
\* minimums of a react-grid-layout LayoutItem.
GridBoxes ==
  { [x |-> 1, y |-> 2, w |-> 5, h |-> 4, minW |-> 2, minH |-> 2],
    [x |-> 6, y |-> 3, w |-> 7, h |-> 8, minW |-> Undefined, minH |-> Undefined] }

ItemOf(id, box) ==
  [i |-> id, x |-> box.x, y |-> box.y, w |-> box.w, h |-> box.h,
   minW |-> box.minW, minH |-> box.minH]

\* The layouts onLayoutChange can carry for the widgets ws on display: one
\* item per widget, or items for the first widgets only.
GridLayouts(ws) ==
  { [k \in 1..n |-> ItemOf(ws[k].id, f[k])] :
      f \in [1..Len(ws) -> GridBoxes], n \in 1..Len(ws) }

\* newLayout.find(l => l.i === id): the first item with that id, if any.
FindItem(layout, id) ==
  LET hits == { k \in 1..Len(layout) : layout[k].i = id }
  IN  IF hits = {} THEN 0 ELSE Min(hits)

\* The updater with the minimums taken from the grid's item, not kept.
ApplyLayout_GridMinimums(prev, newLayout) ==
  [k \in 1..Len(prev) |->
     LET widget == prev[k]
         at == FindItem(newLayout, widget.id)
     IN  IF at # 0
         THEN [widget EXCEPT !.layout =
                 [x |-> newLayout[at].x, y |-> newLayout[at].y,
                  w |-> newLayout[at].w, h |-> newLayout[at].h,
                  minW |-> newLayout[at].minW, minH |-> newLayout[at].minH]]
         ELSE widget]

\* The updater handleLayoutChange passes to setWidgets.
ApplyLayout(prev, newLayout) ==
  [k \in 1..Len(prev) |->
     LET widget == prev[k]
         at == FindItem(newLayout, widget.id)
     IN  IF at # 0
         THEN [widget EXCEPT !.layout =
                 [x |-> newLayout[at].x, y |-> newLayout[at].y,
                  w |-> newLayout[at].w, h |-> newLayout[at].h,
                  minW |-> widget.layout.minW, minH |-> widget.layout.minH]]
         ELSE widget]

\* item.minW ?? 2
OrTwo(n) == IF n = Undefined THEN 2 ELSE n

\* The body saveLayout builds for bulkUpdateLayout.
LayoutUpdates(layout) ==
  [k \in 1..Len(layout) |->
     [id |-> layout[k].i,
      layout |-> [x |-> layout[k].x, y |-> layout[k].y,
                  w |-> layout[k].w, h |-> layout[k].h,
                  minW |-> OrTwo(layout[k].minW), minH |-> OrTwo(layout[k].minH)]]]

\* clearTimeout(handle): the timer with that handle is disarmed; a handle
\* whose timer fired already disarms nothing.
ClearTimeout_Forgotten(tms, handle) == tms
ClearTimeout_StaleHandle(tms, handle) == { tm \in tms : tm.id # handle - 1 }
ClearTimeout(tms, handle) == { tm \in tms : tm.id # handle }

\* window.setTimeout(cb, 500) at time t: the time the callback is due.
TimerDue_Immediate(t) == t
TimerDue(t) == t + DebounceMs

\* A timer whose delay has elapsed: its task is queued, and runs before any
\* event that arrives later and before the clock moves on.
TimerIsDue == \E tm \in timers : tm.due <= now

\* The grid is on display (Dashboard's render, lines 728-794).
GridShown == ~dashLoading /\ dashError = NullStr /\ Len(widgets) > 0

\* The key of the grid child rendered for a widget (key={widget.id}).
ChildKey_Name(widget) == widget.name
ChildKey(widget) == widget.id

\* The HtmlWidget children Dashboard renders (lines 728-794): none while
\* the list loads, failed to load or is empty, else one per widget, with
\* its key and its widgetId prop.
Children(ws, isLoading, err) ==
  IF isLoading \/ err # NullStr THEN <<>>
  ELSE [k \in 1..Len(ws) |-> [key |-> ChildKey(ws[k]), widgetId |-> ws[k].id]]

\* The instance that has the key, 0 if none.
InstanceOf(key) ==
  LET at == { k \in 1..Len(instances) : instances[k].key = key }
  IN  IF at = {} THEN 0 ELSE Min(at)

\* The re-render after a handler changed the state: a child with a new key
\* is mounted and its effect fetches the content; a child whose widgetId
\* prop changed keeps its state and its effect runs again; any other child
\* keeps its instance untouched; an instance without a child is unmounted.
Render ==
  LET children == Children(widgets', dashLoading', dashError')
      Cause(child) ==
        IF InstanceOf(child.key) = 0 THEN "mount"
        ELSE IF instances[InstanceOf(child.key)].widgetId # child.widgetId
             THEN "widgetId" ELSE "none"
      Runs(n) == { k \in 1..n : Cause(children[k]) # "none" }
      started == SelectSeq([k \in 1..Len(children) |->
                              [id |-> children[k].widgetId,
                               cause |-> Cause(children[k])]],
                           LAMBDA f : f.cause # "none")
  IN  /\ contentFetches' = contentFetches \o started
      /\ instances' =
           [k \in 1..Len(children) |->
              IF Cause(children[k]) = "none"
              THEN instances[InstanceOf(children[k].key)]
              ELSE IF Cause(children[k]) = "mount"
              THEN [key |-> children[k].key,
                    widgetId |-> children[k].widgetId,
                    fetch |-> Len(contentFetches) + Cardinality(Runs(k)),
                    loading |-> TRUE, content |-> NullStr,
                    contentType |-> "unknown", error |-> NullStr]
              ELSE [instances[InstanceOf(children[k].key)] EXCEPT
                      !.widgetId = children[k].widgetId,
                      !.fetch = Len(contentFetches) + Cardinality(Runs(k)),
                      !.loading = TRUE, !.error = NullStr]]

InitDashboard ==
  /\ widgets = <<>>
  /\ dashLoading = TRUE
  /\ dashError = NullStr
  /\ pendingLayoutRef = NullRef
  /\ saveTimeoutRef = 0
  /\ timers = {}
  /\ nextTimerId = 1
  /\ now = 0
  /\ events = <<>>
  /\ calls = <<>>
  /\ logged = 0
  /\ unhandled = 0
  /\ deletes = <<>>
  /\ alerts = 0
  /\ edits = <<>>
  /\ backend = <<>>
  /\ instances = <<>>
  /\ contentFetches = <<>>

\* loadWidgets: fetchWidgets() resolves with the backend's list.
LoadWidgetsResolves(data) ==
  /\ dashLoading
  /\ widgets' = data
  /\ dashError' = NullStr
  /\ dashLoading' = FALSE
  /\ UNCHANGED <<pendingLayoutRef, saveTimeoutRef, timers, nextTimerId, now,
                 events, calls, logged, unhandled>>
  /\ UNCHANGED <<deletes, alerts>>
  /\ backend' = data
  /\ UNCHANGED edits
  /\ Render
  /\ UNCHANGED <<widgetVars, modalVars, helperVars>>

\* loadWidgets: fetchWidgets() rejects (a non-success status, a network error).
LoadWidgetsRejects ==
  /\ dashLoading
  /\ dashError' = <<"5", "0", "0">>
  /\ dashLoading' = FALSE
  /\ UNCHANGED <<widgets, pendingLayoutRef, saveTimeoutRef, timers, nextTimerId,
                 now, events, calls, logged, unhandled>>
  /\ UNCHANGED <<deletes, alerts>>
  /\ UNCHANGED <<edits, backend>>
  /\ Render
  /\ UNCHANGED <<widgetVars, modalVars, helperVars>>

\* handleLayoutChange(newLayout), whole: the synchronous update of the
\* widget list, the pending snapshot, the cancelled and the new timer.
HandleLayoutChange(newLayout) ==
  /\ GridShown
  /\ ~TimerIsDue
  /\ Len(events) < MaxEvents
  /\ widgets' = ApplyLayout(widgets, newLayout)
  /\ pendingLayoutRef' = Ref(newLayout)
  /\ timers' = (IF saveTimeoutRef # 0
                THEN ClearTimeout(timers, saveTimeoutRef)
                ELSE timers)
               \cup { [id |-> nextTimerId, due |-> TimerDue(now)] }
  /\ saveTimeoutRef' = nextTimerId
  /\ nextTimerId' = nextTimerId + 1
  /\ events' = Append(events, [t |-> now, layout |-> newLayout])
  /\ UNCHANGED <<dashLoading, dashError, now, calls, logged, unhandled>>
  /\ UNCHANGED <<deletes, alerts>>
  /\ UNCHANGED <<edits, backend>>
  /\ Render
  /\ UNCHANGED <<widgetVars, modalVars, helperVars>>

\* saveLayout(layout) up to its await: the call it issues.
IssueSave(cs, layout) ==
  Append(cs, [t |-> now, ev |-> Len(events), widgets |-> LayoutUpdates(layout),
              status |-> "inflight"])

\* The callback of the debounce timer tm runs (lines 661-666).
TimerFires(tm) ==
  /\ tm \in timers
  /\ tm.due <= now
  /\ timers' = timers \ {tm}
  /\ IF ~pendingLayoutRef.isNull
     THEN /\ calls' = IssueSave(calls, pendingLayoutRef.layout)
          /\ pendingLayoutRef' = NullRef
     ELSE UNCHANGED <<calls, pendingLayoutRef>>
  /\ UNCHANGED <<widgets, dashLoading, dashError, saveTimeoutRef, nextTimerId,
                 now, events, logged, unhandled>>
  /\ UNCHANGED <<deletes, alerts>>
  /\ UNCHANGED <<edits, backend>>
  /\ Render
  /\ UNCHANGED <<widgetVars, modalVars, helperVars>>

\* PUT /widgets/layout/bulk on the backend: each record named in the body
\* takes the layout sent for it.
StoreLayouts(records, body) ==
  [k \in 1..Len(records) |->
     LET at == { j \in 1..Len(body) : body[j].id = records[k].id }
     IN  IF at = {} THEN records[k]
         ELSE [records[k] EXCEPT !.layout = body[Min(at)].layout]]

\* saveLayout after its await: bulkUpdateLayout resolved.
SaveLayoutResolves(c) ==
  /\ c \in 1..Len(calls)
  /\ calls[c].status = "inflight"
  /\ calls' = [calls EXCEPT ![c].status = "ok"]
  /\ UNCHANGED <<widgets, dashLoading, dashError, pendingLayoutRef,
                 saveTimeoutRef, timers, nextTimerId, now, events, logged,
                 unhandled>>
  /\ UNCHANGED <<deletes, alerts>>
  /\ backend' = StoreLayouts(backend, calls[c].widgets)
  /\ UNCHANGED edits
  /\ Render
  /\ UNCHANGED <<widgetVars, modalVars, helperVars>>

\* The catch block of saveLayout: the failure is logged, nothing else.
SaveLayoutCatch_Retry(c) ==
  /\ calls' = Append([calls EXCEPT ![c].status = "failed"],
                     [calls[c] EXCEPT !.t = now])
  /\ logged' = logged + 1
  /\ UNCHANGED <<widgets, unhandled>>
\* saveLayout without its try/catch: the rejection leaves the handler.
SaveLayoutCatch_Missing(c) ==
  /\ calls' = [calls EXCEPT ![c].status = "failed"]
  /\ unhandled' = unhandled + 1
  /\ UNCHANGED <<widgets, logged>>
SaveLayoutCatch(c) ==
  /\ calls' = [calls EXCEPT ![c].status = "failed"]
  /\ logged' = logged + 1
  /\ UNCHANGED <<widgets, unhandled>>

\* saveLayout after its await: bulkUpdateLayout rejected.
SaveLayoutRejects(c) ==
  /\ c \in 1..Len(calls)
  /\ calls[c].status = "inflight"
  /\ SaveLayoutCatch(c)
  /\ UNCHANGED <<dashLoading, dashError, pendingLayoutRef, saveTimeoutRef,
                 timers, nextTimerId, now, events>>
  /\ UNCHANGED <<deletes, alerts>>
  /\ UNCHANGED <<edits, backend>>
  /\ Render
  /\ UNCHANGED <<widgetVars, modalVars, helperVars>>

\* if (!confirm('Delete this widget?')) return; : the handler goes on to
\* the backend call when the user's answer is yes.
DeleteProceeds_Always(answer) == TRUE
DeleteProceeds(answer) == answer

\* handleDeleteWidget(id) up to its await, the user answering the confirm
\* dialog with answer: a declined run returns, a confirmed one issues
\* deleteWidget(id).
HandleDeleteWidget(id, answer) ==
  /\ GridShown
  /\ ~TimerIsDue
  /\ \E k \in 1..Len(widgets) : widgets[k].id = id
  /\ Len(deletes) < MaxDeletes
  /\ deletes' = Append(deletes,
       [id |-> id, confirmed |-> answer,
        status |-> IF DeleteProceeds(answer) THEN "inflight" ELSE "declined"])
  /\ UNCHANGED <<widgets, dashLoading, dashError, pendingLayoutRef,
                 saveTimeoutRef, timers, nextTimerId, now, events, calls, logged,
                 unhandled, alerts>>
  /\ UNCHANGED <<edits, backend>>
  /\ Render
  /\ UNCHANGED <<widgetVars, modalVars, helperVars>>

\* prev.filter((w) => w.id !== id)
RemoveWidget(prev, id) == SelectSeq(prev, LAMBDA w : w.id # id)

\* handleDeleteWidget after its await: deleteWidget resolved.
DeleteResolves(c) ==
  /\ c \in 1..Len(deletes)
  /\ deletes[c].status = "inflight"
  /\ deletes' = [deletes EXCEPT ![c].status = "ok"]
  /\ widgets' = RemoveWidget(widgets, deletes[c].id)
  /\ UNCHANGED <<dashLoading, dashError, pendingLayoutRef, saveTimeoutRef,
                 timers, nextTimerId, now, events, calls, logged, unhandled,
                 alerts>>
  /\ backend' = RemoveWidget(backend, deletes[c].id)
  /\ UNCHANGED edits
  /\ Render
  /\ UNCHANGED <<widgetVars, modalVars, helperVars>>

\* handleDeleteWidget after its await: deleteWidget rejected; the catch
\* block shows the message in an alert.
DeleteRejects(c) ==
  /\ c \in 1..Len(deletes)
  /\ deletes[c].status = "inflight"
  /\ deletes' = [deletes EXCEPT ![c].status = "failed"]
  /\ alerts' = alerts + 1
  /\ UNCHANGED <<widgets, dashLoading, dashError, pendingLayoutRef,
                 saveTimeoutRef, timers, nextTimerId, now, events, calls, logged,
                 unhandled>>
  /\ UNCHANGED <<edits, backend>>
  /\ Render
  /\ UNCHANGED <<widgetVars, modalVars, helperVars>>

\* What the modal hands to onSave, as far as the widget list shows it: the
\* name.
SavedNames == { "Renamed" }
\* The widget handleSaveWidget's editingWidget names, or none (a create).
NoTarget == "new"
\* The ids and the layout the backend gives to created widgets.
CreatedIds == <<"w3", "w4", "w5">>
CreatedLayout == [x |-> 0, y |-> 0, w |-> 4, h |-> 3, minW |-> 2, minH |-> 2]

\* handleSaveWidget(data) up to its await, editingWidget being the widget
\* target or null: updateWidget(editingWidget.id, data) or
\* createWidget(data) is issued.
HandleSaveWidget(target, newName) ==
  /\ ~dashLoading
  /\ dashError = NullStr
  /\ ~TimerIsDue
  /\ Len(edits) < MaxSaves
  /\ target = NoTarget \/ \E k \in 1..Len(widgets) : widgets[k].id = target
  /\ edits' = Append(edits, [id |-> target, name |-> newName, status |-> "inflight"])
  /\ UNCHANGED <<widgets, dashLoading, dashError, pendingLayoutRef,
                 saveTimeoutRef, timers, nextTimerId, now, events, calls, logged,
                 unhandled, deletes, alerts, backend>>
  /\ Render
  /\ UNCHANGED <<widgetVars, modalVars, helperVars>>

\* PUT /widgets/{id} on the backend: the record with the fields of the
\* update, its layout as stored. POST /widgets: a new record.
UpdatedRecord(records, id, newName) ==
  LET at == Min({ k \in 1..Len(records) : records[k].id = id })
  IN  [records[at] EXCEPT !.name = newName]
CreatedRecord(c, newName) ==
  [id |-> CreatedIds[c], name |-> newName, layout |-> CreatedLayout]

\* prev.map((w) => (w.id === updated.id ? updated : w))
ReplaceWidget_LayoutKept(prev, updated) ==
  [k \in 1..Len(prev) |->
     IF prev[k].id = updated.id
     THEN [updated EXCEPT !.layout = prev[k].layout] ELSE prev[k]]
ReplaceWidget(prev, updated) ==
  [k \in 1..Len(prev) |-> IF prev[k].id = updated.id THEN updated ELSE prev[k]]

\* handleSaveWidget after its await: the call resolved with the record the
\* backend returns.
SaveWidgetResolves(c) ==
  /\ c \in 1..Len(edits)
  /\ edits[c].status = "inflight"
  /\ edits' = [edits EXCEPT ![c].status = "ok"]
  /\ IF edits[c].id # NoTarget
     THEN /\ \E k \in 1..Len(backend) : backend[k].id = edits[c].id
          /\ LET updated == UpdatedRecord(backend, edits[c].id, edits[c].name)
             IN  /\ backend' = ReplaceWidget(backend, updated)
                 /\ widgets' = ReplaceWidget(widgets, updated)
     ELSE LET created == CreatedRecord(c, edits[c].name)
          IN  /\ backend' = Append(backend, created)
              /\ widgets' = Append(widgets, created)
  /\ UNCHANGED <<dashLoading, dashError, pendingLayoutRef, saveTimeoutRef,
                 timers, nextTimerId, now, events, calls, logged, unhandled,
                 deletes, alerts>>
  /\ Render
  /\ UNCHANGED <<widgetVars, modalVars, helperVars>>

\* handleSaveWidget after its await: the call rejected; the catch block
\* shows the message in an alert.
SaveWidgetRejects(c) ==
  /\ c \in 1..Len(edits)
  /\ edits[c].status = "inflight"
  /\ edits' = [edits EXCEPT ![c].status = "failed"]
  /\ alerts' = alerts + 1
  /\ UNCHANGED <<widgets, dashLoading, dashError, pendingLayoutRef,
                 saveTimeoutRef, timers, nextTimerId, now, events, calls, logged,
                 unhandled, deletes, backend>>
  /\ Render
  /\ UNCHANGED <<widgetVars, modalVars, helperVars>>

\* Time passes, up to the next armed timer's due time.
Tick ==
  /\ ~TimerIsDue
  /\ now < MaxTime
  /\ now' = Min({now + TickMs, MaxTime} \cup { tm.due : tm \in timers })
  /\ UNCHANGED <<widgets, dashLoading, dashError, pendingLayoutRef,
                 saveTimeoutRef, timers, nextTimerId, events, calls, logged,
                 unhandled>>
  /\ UNCHANGED <<deletes, alerts>>
  /\ UNCHANGED <<edits, backend>>
  /\ Render
  /\ UNCHANGED <<widgetVars, modalVars, helperVars>>

NextDashboard ==
  \/ \E data \in BackendWidgetLists : LoadWidgetsResolves(data)
  \/ LoadWidgetsRejects
  \/ \E newLayout \in GridLayouts(widgets) : HandleLayoutChange(newLayout)
  \/ \E tm \in timers : TimerFires(tm)
  \/ \E c \in 1..Len(calls) : SaveLayoutResolves(c)
  \/ \E c \in 1..Len(calls) : SaveLayoutRejects(c)
  \/ Tick

\* The Dashboard with its remove buttons, within the debounce delay of its
\* layout changes (no timer is due yet).
NextDashboardDelete ==
  \/ \E data \in BackendWidgetLists : LoadWidgetsResolves(data)
  \/ LoadWidgetsRejects
  \/ \E newLayout \in GridLayouts(widgets) : HandleLayoutChange(newLayout)
  \/ \E k \in 1..Len(widgets) : \E answer \in BOOLEAN :
       HandleDeleteWidget(widgets[k].id, answer)
  \/ \E c \in 1..Len(deletes) : DeleteResolves(c)
  \/ \E c \in 1..Len(deletes) : DeleteRejects(c)

\* The Dashboard with its timers and confirmed removals of widgets.
NextDashboardRace ==
  \/ \E data \in BackendWidgetLists : LoadWidgetsResolves(data)
  \/ \E newLayout \in GridLayouts(widgets) : HandleLayoutChange(newLayout)
  \/ \E tm \in timers : TimerFires(tm)
  \/ \E c \in 1..Len(calls) : SaveLayoutResolves(c)
  \/ \E k \in 1..Len(widgets) : HandleDeleteWidget(widgets[k].id, TRUE)
  \/ \E c \in 1..Len(deletes) : DeleteResolves(c)
  \/ Tick

\* The Dashboard with its timers and the saves of the modal.
NextDashboardEdit ==
  \/ \E data \in BackendWidgetLists : LoadWidgetsResolves(data)
  \/ \E newLayout \in GridLayouts(widgets) : HandleLayoutChange(newLayout)
  \/ \E tm \in timers : TimerFires(tm)
  \/ \E c \in 1..Len(calls) : SaveLayoutResolves(c)
  \/ \E c \in 1..Len(calls) : SaveLayoutRejects(c)
  \/ \E target \in {NoTarget} \cup { widgets[k].id : k \in 1..Len(widgets) } :
       \E newName \in SavedNames : HandleSaveWidget(target, newName)
  \/ \E c \in 1..Len(edits) : SaveWidgetResolves(c)
  \/ \E c \in 1..Len(edits) : SaveWidgetRejects(c)
  \/ Tick

(***************************************************************************)
(*                     Strings (String.prototype)                          *)
(***************************************************************************)
UpperCase == <<"A","B","C","D","E","F","G","H","I","J","K","L","M",
               "N","O","P","Q","R","S","T","U","V","W","X","Y","Z">>
LowerCase == <<"a","b","c","d","e","f","g","h","i","j","k","l","m",
               "n","o","p","q","r","s","t","u","v","w","x","y","z">>

ToLowerChar(c) ==
  IF \E k \in 1..26 : UpperCase[k] = c
  THEN LowerCase[CHOOSE k \in 1..26 : UpperCase[k] = c]
  ELSE c

\* s.toLowerCase()
ToLowerCase(s) == [k \in 1..Len(s) |-> ToLowerChar(s[k])]

\* The grave accent, which a string of this notation cannot hold.
Backtick == "grave"

IsLetter(c) == \E k \in 1..26 : UpperCase[k] = c \/ LowerCase[k] = c
IsDigit(c) == c \in {"0","1","2","3","4","5","6","7","8","9"}
IsWhitespace(c) == c \in {" ", "\t", "\n", "\r"}
\* The characters the regular expression . does not match.
IsLineTerminator(c) == c \in {"\n", "\r"}

\* s.startsWith(p), s.endsWith(p)
StartsWith(s, p) == Len(p) <= Len(s) /\ SubSeq(s, 1, Len(p)) = p
EndsWith(s, p) ==
  Len(p) <= Len(s) /\ SubSeq(s, Len(s) - Len(p) + 1, Len(s)) = p

\* s.split(c)[0]: s up to the first c, all of s when it holds none.
BeforeFirst(s, c) ==
  LET at == { k \in 1..Len(s) : s[k] = c }
  IN  IF at = {} THEN s ELSE SubSeq(s, 1, Min(at) - 1)

\* s.trim()
Trim(s) ==
  LET keep == { k \in 1..Len(s) : ~IsWhitespace(s[k]) }
  IN  IF keep = {} THEN <<>>
      ELSE SubSeq(s, Min(keep), CHOOSE m \in keep : \A n \in keep : n <= m)

\* s.split(c): the pieces between the occurrences of c (one piece at least).
RECURSIVE Split(_, _)
Split(s, c) ==
  LET at == { k \in 1..Len(s) : s[k] = c }
  IN  IF at = {} THEN <<s>>
      ELSE <<SubSeq(s, 1, Min(at) - 1)>>
           \o Split(SubSeq(s, Min(at) + 1, Len(s)), c)

\* (line.match(/,/g) || []).length
CountCommas(line) == Cardinality({ k \in 1..Len(line) : line[k] = "," })

(***************************************************************************)
(*                 isImageUrl and detectContentType                        *)
(***************************************************************************)
IMAGE_EXTENSIONS ==
  { <<".","p","n","g">>, <<".","j","p","g">>, <<".","j","p","e","g">>,
    <<".","g","i","f">>, <<".","w","e","b","p">>, <<".","s","v","g">>,
    <<".","b","m","p">>, <<".","i","c","o">> }

isImageUrl(url) ==
  LET lowerUrl == BeforeFirst(ToLowerCase(url), "?")
  IN  \E ext \in IMAGE_EXTENSIONS : EndsWith(lowerUrl, ext)

\* The rules of detectContentType that read the URL; "none" when none applies.
UrlRule_QueryKept(url) ==
  IF ~Truthy(url) THEN "none"
  ELSE LET lowerUrl == ToLowerCase(url)
       IN  IF \E ext \in IMAGE_EXTENSIONS : EndsWith(lowerUrl, ext) THEN "image"
           ELSE IF \/ EndsWith(lowerUrl, <<".","m","d">>)
                   \/ EndsWith(lowerUrl, <<".","m","a","r","k","d","o","w","n">>)
                THEN "markdown"
           ELSE IF EndsWith(lowerUrl, <<".","c","s","v">>) THEN "csv"
           ELSE IF \/ EndsWith(lowerUrl, <<".","h","t","m","l">>)
                   \/ EndsWith(lowerUrl, <<".","h","t","m">>)
                THEN "html"
           ELSE "none"
UrlRule(url) ==
  IF ~Truthy(url) THEN "none"
  ELSE LET lowerUrl == BeforeFirst(ToLowerCase(url), "?")
       IN  IF \E ext \in IMAGE_EXTENSIONS : EndsWith(lowerUrl, ext) THEN "image"
           ELSE IF \/ EndsWith(lowerUrl, <<".","m","d">>)
                   \/ EndsWith(lowerUrl, <<".","m","a","r","k","d","o","w","n">>)
                THEN "markdown"
           ELSE IF EndsWith(lowerUrl, <<".","c","s","v">>) THEN "csv"
           ELSE IF \/ EndsWith(lowerUrl, <<".","h","t","m","l">>)
                   \/ EndsWith(lowerUrl, <<".","h","t","m">>)
                THEN "html"
           ELSE "none"

\* trimmed starts with a doctype or an html tag.
HtmlStart(trimmed) ==
  \/ StartsWith(trimmed, <<"<","!","D","O","C","T","Y","P","E">>)
  \/ StartsWith(trimmed, <<"<","!","d","o","c","t","y","p","e">>)
  \/ StartsWith(trimmed, <<"<","h","t","m","l">>)
  \/ StartsWith(trimmed, <<"<","H","T","M","L">>)

\* The CSV detection: the first 5 lines, two at least, the same positive
\* number of commas on each.
CsvLike(trimmed) ==
  LET all == Split(trimmed, "\n")
      lines == SubSeq(all, 1, IF Len(all) < 5 THEN Len(all) ELSE 5)
      commasPerLine == [k \in 1..Len(lines) |-> CountCommas(lines[k])]
  IN  /\ Len(lines) >= 2
      /\ \A k \in 1..Len(lines) :
           commasPerLine[k] = commasPerLine[1] /\ commasPerLine[k] > 0
      /\ commasPerLine[1] >= 1

\* No line terminator in s[a..b].
OneLine(s, a, b) == \A k \in a..b : ~IsLineTerminator(s[k])

\* /^\*\*.*\*\*/
BoldStart(s) ==
  /\ StartsWith(s, <<"*","*">>)
  /\ \E k \in 3..(Len(s) - 1) :
       s[k] = "*" /\ s[k + 1] = "*" /\ OneLine(s, 3, k - 1)
\* /^[-*+] /
ListStart(s) == Len(s) >= 2 /\ s[1] \in {"-", "*", "+"} /\ s[2] = " "
\* /^\d+\. /
NumberedStart(s) ==
  \E n \in 1..(Len(s) - 2) :
    /\ \A k \in 1..n : IsDigit(s[k])
    /\ s[n + 1] = "." /\ s[n + 2] = " "
\* /\[.*\]\(.*\)/
LinkInside(s) ==
  \E a \in 1..Len(s) : \E b \in (a + 1)..(Len(s) - 2) :
    \E c \in (b + 2)..Len(s) :
      /\ s[a] = "[" /\ s[b] = "]" /\ s[b + 1] = "(" /\ s[c] = ")"
      /\ OneLine(s, a + 1, b - 1) /\ OneLine(s, b + 2, c - 1)

MarkdownLike(trimmed) ==
  \/ StartsWith(trimmed, <<"#">>)
  \/ BoldStart(trimmed)
  \/ ListStart(trimmed)
  \/ NumberedStart(trimmed)
  \/ LinkInside(trimmed)
  \/ StartsWith(trimmed, <<Backtick, Backtick, Backtick>>)
  \/ StartsWith(trimmed, <<">">>)

\* /<[a-z][\s\S]*>/i
TagInside(s) ==
  \E a \in 1..(Len(s) - 2) : \E b \in (a + 2)..Len(s) :
    s[a] = "<" /\ IsLetter(s[a + 1]) /\ s[b] = ">"

detectContentType_Stateful(contentText, url) ==
  LET byUrl == UrlRule(url)
      trimmed == Trim(contentText)
  IN  IF detected # "none" THEN "unknown"
      ELSE IF byUrl # "none" THEN byUrl
      ELSE IF HtmlStart(trimmed) THEN "html"
      ELSE IF CsvLike(trimmed) THEN "csv"
      ELSE IF MarkdownLike(trimmed) THEN "markdown"
      ELSE IF TagInside(trimmed) THEN "html"
      ELSE "markdown"
detectContentType_MarkdownFirst(contentText, url) ==
  LET byUrl == UrlRule(url)
      trimmed == Trim(contentText)
  IN  IF byUrl # "none" THEN byUrl
      ELSE IF HtmlStart(trimmed) THEN "html"
      ELSE IF MarkdownLike(trimmed) THEN "markdown"
      ELSE IF CsvLike(trimmed) THEN "csv"
      ELSE IF TagInside(trimmed) THEN "html"
      ELSE "markdown"
detectContentType(contentText, url) ==
  LET byUrl == UrlRule(url)
      trimmed == Trim(contentText)
  IN  IF byUrl # "none" THEN byUrl
      ELSE IF HtmlStart(trimmed) THEN "html"
      ELSE IF CsvLike(trimmed) THEN "csv"
      ELSE IF MarkdownLike(trimmed) THEN "markdown"
      ELSE IF TagInside(trimmed) THEN "html"
      ELSE "markdown"

(***************************************************************************)
(*                              HtmlWidget                                 *)
(***************************************************************************)
WidgetIds == {"w1", "w2"}

\* 'No content received' and 'Failed to load content'
NoContentReceived ==
  <<"N","o"," ","c","o","n","t","e","n","t"," ","r","e","c","e","i","v","e","d">>
FailedToLoadContent ==
  <<"F","a","i","l","e","d"," ","t","o"," ","l","o","a","d"," ",
    "c","o","n","t","e","n","t">>

\* Answers of GET /widgets/{id}/content (WidgetContent): the URLs, texts and
\* errors a backend can send, null and the empty string among them.
ContentUrls ==
  { NullStr,
    <<"c",".","P","n","g","?","v","=","1">>,
    <<"r",".","m","d">> }
HtmlContents ==
  { NullStr,
    <<>>,
    <<"<","h","t","m","l",">">>,
    <<"a",",","b","\n","1",",","2">> }
ContentErrors == { NullStr, <<>>, <<"b","o","o","m">> }
WidgetContents ==
  [content_url : ContentUrls, html_content : HtmlContents, error : ContentErrors]

\* What fetchWidgetContent can reject with: an Error with a message (the
\* status of a non-success answer), or a value that is no Error.
Rejections ==
  { [isError |-> TRUE, message |-> <<"5","0","0">>],
    [isError |-> FALSE, message |-> <<>>] }

NoContent == [content_url |-> NullStr, html_content |-> NullStr, error |-> NullStr]
NoRejection == [isError |-> FALSE, message |-> <<>>]

\* The state loadContent sets for a resolved fetch (lines 466-488), from the
\* answer and the contentType held before; detect: detectContentType ran.
Loaded_ImageBeforeError(result, prevType) ==
  IF Truthy(result.content_url) /\ isImageUrl(result.content_url)
  THEN [content |-> NullStr, contentUrl |-> result.content_url,
        contentType |-> "image", error |-> NullStr, detect |-> FALSE]
  ELSE IF Truthy(result.error)
  THEN [content |-> NullStr, contentUrl |-> NullStr,
        contentType |-> prevType, error |-> result.error, detect |-> FALSE]
  ELSE IF Truthy(result.html_content)
  THEN [content |-> result.html_content, contentUrl |-> result.content_url,
        contentType |-> detectContentType(result.html_content, result.content_url),
        error |-> NullStr, detect |-> TRUE]
  ELSE [content |-> NullStr, contentUrl |-> NullStr,
        contentType |-> prevType, error |-> NoContentReceived, detect |-> FALSE]
\* The text branch without setContentType(detected).
Loaded_KindKept(result, prevType) ==
  IF Truthy(result.error)
  THEN [content |-> NullStr, contentUrl |-> NullStr,
        contentType |-> prevType, error |-> result.error, detect |-> FALSE]
  ELSE IF Truthy(result.content_url) /\ isImageUrl(result.content_url)
  THEN [content |-> NullStr, contentUrl |-> result.content_url,
        contentType |-> "image", error |-> NullStr, detect |-> FALSE]
  ELSE IF Truthy(result.html_content)
  THEN [content |-> result.html_content, contentUrl |-> result.content_url,
        contentType |-> prevType, error |-> NullStr, detect |-> TRUE]
  ELSE [content |-> NullStr, contentUrl |-> NullStr,
        contentType |-> prevType, error |-> NoContentReceived, detect |-> FALSE]
Loaded(result, prevType) ==
  IF Truthy(result.error)
  THEN [content |-> NullStr, contentUrl |-> NullStr,
        contentType |-> prevType, error |-> result.error, detect |-> FALSE]
  ELSE IF Truthy(result.content_url) /\ isImageUrl(result.content_url)
  THEN [content |-> NullStr, contentUrl |-> result.content_url,
        contentType |-> "image", error |-> NullStr, detect |-> FALSE]
  ELSE IF Truthy(result.html_content)
  THEN [content |-> result.html_content, contentUrl |-> result.content_url,
        contentType |-> detectContentType(result.html_content, result.content_url),
        error |-> NullStr, detect |-> TRUE]
  ELSE [content |-> NullStr, contentUrl |-> NullStr,
        contentType |-> prevType, error |-> NoContentReceived, detect |-> FALSE]

\* err instanceof Error ? err.message : 'Failed to load content'
LoadErrorMessage(err) == IF err.isError THEN err.message ELSE FailedToLoadContent

\* The effect's cleanup: the flag of the effect run last is set.
Cleanup_Forgotten(effs) == effs
Cleanup(effs) == [effs EXCEPT ![Len(effs)].cancelled = TRUE]

\* A completion of effect run e comes too late: a later run exists, or the
\* component is unmounted.
Superseded(e) == e # Len(effects) \/ ~mounted

InitHtmlWidget ==
  /\ content = NullStr
  /\ contentUrl = NullStr
  /\ contentType = "unknown"
  /\ error = NullStr
  /\ loading = TRUE
  /\ widgetId = "w1"
  /\ mounted = TRUE
  /\ effects = <<>>
  /\ lastCompletion = [e |-> 0, kind |-> "none", result |-> NoContent,
                       err |-> NoRejection, superseded |-> FALSE,
                       detected |-> FALSE]

\* loadContent starting without setLoading(true).
StartLoad_FlagKept(effs, id) ==
  /\ effects' = Append(effs, [widgetId |-> id, cancelled |-> FALSE,
                              status |-> "inflight"])
  /\ loading' = loading
  /\ error' = NullStr

\* loadContent up to its await: setLoading(true), setError(null), the fetch.
StartLoad(effs, id) ==
  /\ effects' = Append(effs, [widgetId |-> id, cancelled |-> FALSE,
                              status |-> "inflight"])
  /\ loading' = TRUE
  /\ error' = NullStr

\* The effect runs after the first render.
Mount ==
  /\ mounted
  /\ effects = <<>>
  /\ StartLoad(effects, widgetId)
  /\ UNCHANGED <<content, contentUrl, contentType, widgetId, mounted,
                 lastCompletion>>
  /\ UNCHANGED <<dashVars, modalVars, helperVars>>

\* The widgetId prop changes: the cleanup of the last run, then a new run.
WidgetIdChanges(id) ==
  /\ mounted
  /\ effects # <<>>
  /\ Len(effects) < MaxFetches
  /\ id # widgetId
  /\ widgetId' = id
  /\ StartLoad(Cleanup(effects), id)
  /\ UNCHANGED <<content, contentUrl, contentType, mounted, lastCompletion>>
  /\ UNCHANGED <<dashVars, modalVars, helperVars>>

\* The component is unmounted: the cleanup of the last run.
Unmount ==
  /\ mounted
  /\ effects # <<>>
  /\ mounted' = FALSE
  /\ effects' = Cleanup(effects)
  /\ UNCHANGED <<content, contentUrl, contentType, error, loading, widgetId,
                 lastCompletion>>
  /\ UNCHANGED <<dashVars, modalVars, helperVars>>

\* loadContent after its await, fetchWidgetContent resolved with result.
FetchResolves(e, result) ==
  /\ e \in 1..Len(effects)
  /\ effects[e].status = "inflight"
  /\ effects' = [effects EXCEPT ![e].status = "done"]
  /\ lastCompletion' =
       [e |-> e, kind |-> "resolved", result |-> result, err |-> NoRejection,
        superseded |-> Superseded(e),
        detected |-> ~effects[e].cancelled /\ Loaded(result, contentType).detect]
  /\ IF effects[e].cancelled
     THEN UNCHANGED <<content, contentUrl, contentType, error, loading>>
     ELSE LET st == Loaded(result, contentType)
          IN  /\ content' = st.content
              /\ contentUrl' = st.contentUrl
              /\ contentType' = st.contentType
              /\ error' = st.error
              /\ loading' = FALSE
  /\ UNCHANGED <<widgetId, mounted>>
  /\ UNCHANGED <<dashVars, modalVars, helperVars>>

\* loadContent after its await, fetchWidgetContent rejected with err.
FetchRejects(e, err) ==
  /\ e \in 1..Len(effects)
  /\ effects[e].status = "inflight"
  /\ effects' = [effects EXCEPT ![e].status = "done"]
  /\ lastCompletion' = [e |-> e, kind |-> "rejected", result |-> NoContent,
                        err |-> err, superseded |-> Superseded(e),
                        detected |-> FALSE]
  /\ IF effects[e].cancelled
     THEN UNCHANGED <<content, contentUrl, error, loading>>
     ELSE /\ error' = LoadErrorMessage(err)
          /\ content' = NullStr
          /\ contentUrl' = NullStr
          /\ loading' = FALSE
  /\ UNCHANGED <<contentType, widgetId, mounted>>
  /\ UNCHANGED <<dashVars, modalVars, helperVars>>

NextHtmlWidget ==
  \/ Mount
  \/ \E id \in WidgetIds : WidgetIdChanges(id)
  \/ Unmount
  \/ \E e \in 1..Len(effects) : \E result \in WidgetContents :
       FetchResolves(e, result)
  \/ \E e \in 1..Len(effects) : \E err \in Rejections : FetchRejects(e, err)

(***************************************************************************)
(*                 JSON values (the payload of a test call)                *)
(***************************************************************************)
\* One shape for every value: the tag t, the text s of a string, the number
\* n, the truth value b, and kids: the entries [k, v] of an object in order,
\* or the items of an array (k unused).
JNull == [t |-> "null", s |-> <<>>, n |-> 0, b |-> FALSE, kids |-> <<>>]
JUndefined == [t |-> "undefined", s |-> <<>>, n |-> 0, b |-> FALSE, kids |-> <<>>]
JStr(str) == [t |-> "string", s |-> str, n |-> 0, b |-> FALSE, kids |-> <<>>]
JNum(num) == [t |-> "number", s |-> <<>>, n |-> num, b |-> FALSE, kids |-> <<>>]
JBool(bool) == [t |-> "boolean", s |-> <<>>, n |-> 0, b |-> bool, kids |-> <<>>]
JObj(entries) == [t |-> "object", s |-> <<>>, n |-> 0, b |-> FALSE, kids |-> entries]
JArr(items) ==
  [t |-> "array", s |-> <<>>, n |-> 0, b |-> FALSE,
   kids |-> [k \in 1..Len(items) |-> [k |-> <<>>, v |-> items[k]]]]
Entry(key, value) == [k |-> key, v |-> value]

\* JavaScript truthiness of a JSON value.
JTruthy(v) ==
  CASE v.t = "null" -> FALSE
    [] v.t = "undefined" -> FALSE
    [] v.t = "boolean" -> v.b
    [] v.t = "number" -> v.n # 0
    [] v.t = "string" -> v.s # <<>>
    [] OTHER -> TRUE

Http == <<"h","t","t","p",":","/","/">>
Https == <<"h","t","t","p","s",":","/","/">>
HttpsO == <<"h","t","t","p","s",":","/","/","o">>
HttpA == <<"h","t","t","p",":","/","/","a">>
\* url.startsWith('http://') || url.startsWith('https://')
IsHttpUrl(str) == StartsWith(str, Http) \/ StartsWith(str, Https)

(***************************************************************************)
(*                        extractValueFromPath                             *)
(***************************************************************************)
DigitValue(c) ==
  CASE c = "0" -> 0 [] c = "1" -> 1 [] c = "2" -> 2 [] c = "3" -> 3
    [] c = "4" -> 4 [] c = "5" -> 5 [] c = "6" -> 6 [] c = "7" -> 7
    [] c = "8" -> 8 [] c = "9" -> 9

RECURSIVE DigitsValue(_)
DigitsValue(ds) ==
  IF ds = <<>> THEN 0
  ELSE 10 * DigitsValue(SubSeq(ds, 1, Len(ds) - 1)) + DigitValue(ds[Len(ds)])

\* parseInt(key, 10): leading white space and one sign are skipped, then the
\* longest run of digits is read; no digit there: NaN.
ParseInt(key) ==
  LET body == { k \in 1..Len(key) : ~IsWhitespace(key[k]) }
      from == IF body = {} THEN Len(key) + 1 ELSE Min(body)
      signed == from <= Len(key) /\ key[from] \in {"+", "-"}
      first == IF signed THEN from + 1 ELSE from
      stops == { k \in first..Len(key) : ~IsDigit(key[k]) }
      last == IF stops = {} THEN Len(key) ELSE Min(stops) - 1
      digits == SubSeq(key, first, last)
  IN  IF digits = <<>> THEN [nan |-> TRUE, value |-> 0]
      ELSE [nan |-> FALSE,
            value |-> IF signed /\ key[from] = "-"
                      THEN 0 - DigitsValue(digits) ELSE DigitsValue(digits)]

\* result[index] wrapping around the end of the array.
ItemAt_Wrapping(arr, index) ==
  IF Len(arr.kids) > 0 /\ index >= 0
  THEN arr.kids[(index % Len(arr.kids)) + 1].v ELSE JUndefined

\* result[index] of an array: undefined outside its range.
ItemAt(arr, index) ==
  IF index >= 0 /\ index < Len(arr.kids) THEN arr.kids[index + 1].v ELSE JUndefined

\* result[key] of an object that JSON.parse built: the value of its own
\* key. A name found on Object.prototype instead gives a function, the
\* prototype or null, from which no string is reached: the walk ends in ''
\* as it does from undefined.
Lookup(obj, key) ==
  LET at == { k \in 1..Len(obj.kids) : obj.kids[k].k = key }
  IN  IF at = {} THEN JUndefined ELSE obj.kids[Min(at)].v

\* The loop of extractValueFromPath from segment i on; done |-> TRUE is the
\* early return ''.
RECURSIVE Walk(_, _, _)
Walk(result, keys, i) ==
  IF i > Len(keys) THEN [done |-> FALSE, value |-> result]
  ELSE IF result.t = "object" THEN Walk(Lookup(result, keys[i]), keys, i + 1)
  ELSE IF result.t = "array"
       THEN LET index == ParseInt(keys[i])
            IN  IF ~index.nan
                THEN Walk(ItemAt(result, index.value), keys, i + 1)
                ELSE [done |-> TRUE, value |-> JUndefined]
  ELSE [done |-> TRUE, value |-> JUndefined]

extractValueFromPath(data, path) ==
  LET end == Walk(data, Split(path, "."), 1)
  IN  IF ~end.done /\ end.value.t = "string" THEN end.value.s ELSE <<>>

(***************************************************************************)
(*                    JsonViewer: the paths it offers                      *)
(***************************************************************************)
DigitChars == <<"0","1","2","3","4","5","6","7","8","9">>
\* `${index}` of an array index
RECURSIVE IndexText(_)
IndexText(i) ==
  IF i < 10 THEN <<DigitChars[i + 1]>>
  ELSE IndexText(i \div 10) \o <<DigitChars[(i % 10) + 1]>>

\* path ? `${path}.${key}` : key
ChildPath(path, key) == IF path # <<>> THEN path \o <<".">> \o key ELSE key

\* The paths JsonViewer hands to onPathClick for data rendered at path: the
\* path of every object key, and of every string that starts with http:// or
\* https://.
RECURSIVE ClickablePaths(_, _)
ClickablePaths(data, path) ==
  CASE data.t = "string" -> IF IsHttpUrl(data.s) THEN {path} ELSE {}
    [] data.t = "array" ->
         UNION { ClickablePaths(data.kids[k].v, ChildPath(path, IndexText(k - 1))) :
                   k \in 1..Len(data.kids) }
    [] data.t = "object" ->
         UNION { {ChildPath(path, data.kids[k].k)}
                   \cup ClickablePaths(data.kids[k].v, ChildPath(path, data.kids[k].k)) :
                   k \in 1..Len(data.kids) }
    [] OTHER -> {}

(***************************************************************************)
(*                 The pure helpers called on their own                    *)
(***************************************************************************)
NoDetectArgs == [content |-> <<>>, url |-> NullStr]
NoExtractArgs == [data |-> JNull, path |-> <<>>]
NotExtracted == [called |-> FALSE, value |-> <<>>]
\* No helper was called yet.
InitHelpers ==
  /\ detectArgs = NoDetectArgs
  /\ detected = "none"
  /\ csvText = <<>>
  /\ csvRows = <<>>
  /\ extractArgs = NoExtractArgs
  /\ extracted = NotExtracted

(***************************************************************************)
(*                          WidgetConfigModal                              *)
(***************************************************************************)
XApiKey == <<"X","-","A","P","I","-","K","e","y">>
\* 'Please enter an API endpoint first' and 'Failed to test API'
PleaseEnterEndpoint ==
  <<"P","l","e","a","s","e"," ","e","n","t","e","r"," ","a","n"," ",
    "A","P","I"," ","e","n","d","p","o","i","n","t"," ","f","i","r","s","t">>
FailedToTestApi ==
  <<"F","a","i","l","e","d"," ","t","o"," ","t","e","s","t"," ","A","P","I">>

\* What the user can type into the endpoint and the path inputs.
EndpointInputs == { <<>>, <<"h","t","t","p",":","/","/","e">> }
PathInputs == { <<"u","r","l">>, <<"d","a","t","a",".","n">> }

\* Payloads the backend can decode (TestApiResult.data).
UrlText == <<"h","t","t","p","s",":","/","/","x","/","y",".","p","d","f">>
ExamplePayload ==
  JObj(<< Entry(<<"d","a","t","a">>,
                JObj(<< Entry(<<"u","r","l">>, JStr(UrlText)),
                        Entry(<<"n">>, JNum(42)),
                        Entry(<<"s">>, JStr(<<"f","t","p",":","/","/","z">>)) >>)),
          Entry(<<"l">>, JArr(<< JStr(<<"h","t","t","p",":","/","/","a">>),
                                 JNum(7) >>)) >>)
OtherPayload ==
  JObj(<< Entry(<<"u","r","l">>, JStr(<<"h","t","t","p","s",":","/","/","o">>)) >>)
Payloads == { ExamplePayload, OtherPayload, JNull }

\* Answers of POST /widgets/test-api (TestApiResult).
TestErrors == { NullStr, <<>>, <<"b","a","d">> }
TestApiResults == [data : Payloads, error : TestErrors]
NoTestResult == [data |-> JNull, error |-> NullStr]

\* The paths handlePathClick is tried with: paths the viewer offers for the
\* payloads, and paths that resolve to nothing in them.
PathsTried ==
  ClickablePaths(ExamplePayload, <<>>) \cup ClickablePaths(OtherPayload, <<>>)
    \cup { <<"l",".","1">>, <<"l",".","9">>, <<"l",".","x">>,
           <<"d","a","t","a",".","u","r","l",".","z">>, <<"q">>, <<>> }

\* testResult: null, or the text JSON.stringify(data, null, 2) gave, kept as
\* the value JSON.parse reads back from it.
NullResult == [isNull |-> TRUE, json |-> JNull]
Stringified(data) == [isNull |-> FALSE, json |-> data]

NoOp == [op |-> "none", path |-> <<>>, call |-> 0, result |-> NoTestResult,
         err |-> NoRejection]

\* The widget prop when a widget is created: null.
NoWidget ==
  [isNull |-> TRUE, name |-> <<>>, api_endpoint |-> <<>>, api_key_header |-> <<>>,
   request_body |-> <<>>, response_url_path |-> <<>>, content_url |-> <<>>]

\* No call of onSave yet.
NoPayload ==
  [kind |-> "none", name |-> <<>>, api_endpoint |-> <<>>, api_key |-> NullStr,
   api_key_header |-> <<>>, request_body |-> <<>>, response_url_path |-> <<>>,
   content_url |-> <<>>]

InitModal ==
  /\ apiEndpoint = <<>>
  /\ apiKey = <<>>
  /\ apiKeyHeader = XApiKey
  /\ reportId = <<>>
  /\ responseUrlPath = <<"u","r","l">>
  /\ cfgContentUrl = <<>>
  /\ testing = FALSE
  /\ testResult = NullResult
  /\ testError = NullStr
  /\ testData = JNull
  /\ testCalls = <<>>
  /\ lastOp = NoOp
  /\ name = <<>>
  /\ saving = FALSE
  /\ editingWidget = NoWidget
  /\ saved = NoPayload

\* onChange of the endpoint input
SetApiEndpoint(value) ==
  /\ apiEndpoint' = value
  /\ lastOp' = [NoOp EXCEPT !.op = "setApiEndpoint"]
  /\ UNCHANGED <<apiKey, apiKeyHeader, reportId, responseUrlPath, cfgContentUrl,
                 testing, testResult, testError, testData, testCalls>>
  /\ UNCHANGED <<dashVars, widgetVars, formVars, helperVars>>

\* onChange of the URL path input
SetResponseUrlPath(value) ==
  /\ responseUrlPath' = value
  /\ lastOp' = [NoOp EXCEPT !.op = "setResponseUrlPath"]
  /\ UNCHANGED <<apiEndpoint, apiKey, apiKeyHeader, reportId, cfgContentUrl,
                 testing, testResult, testError, testData, testCalls>>
  /\ UNCHANGED <<dashVars, widgetVars, formVars, helperVars>>

\* The characters JSON.stringify escapes in a string, of those the inputs
\* hold: the double quote and the backslash.
RECURSIVE JsonEscape(_)
JsonEscape(str) ==
  IF str = <<>> THEN <<>>
  ELSE (IF Head(str) \in {"\"", "\\"} THEN <<"\\", Head(str)>> ELSE <<Head(str)>>)
       \o JsonEscape(Tail(str))

\* JSON.stringify({ report_id: value })
ReportIdObject(value) ==
  <<"{", "\"", "r","e","p","o","r","t","_","i","d", "\"", ":", "\"">>
    \o JsonEscape(value) \o <<"\"", "}">>

\* getRequestBody(): '' for a blank report id, else the JSON text of an
\* object whose one field report_id is the trimmed report id.
getRequestBody_Stored ==
  IF editingWidget.isNull THEN <<>> ELSE editingWidget.request_body
getRequestBody ==
  IF Trim(reportId) = <<>> THEN <<>> ELSE ReportIdObject(Trim(reportId))

\* value || undefined
OrUndefined(value) == IF Truthy(value) THEN value ELSE NullStr

\* The request testWidgetApi posts to /widgets/test-api: JSON.stringify
\* leaves out the fields that are undefined (NullStr here).
testWidgetApi(endpoint, key, header, body) ==
  [api_endpoint |-> endpoint,
   api_key |-> key,
   api_key_header |-> IF Truthy(header) THEN header ELSE XApiKey,
   request_body |-> body]

\* handleTestApi passes its endpoint validation (line 58).
EndpointGiven_Always == TRUE
EndpointGiven == Truthy(apiEndpoint)

\* handleTestApi up to its await.
handleTestApi ==
  /\ IF ~EndpointGiven
     THEN /\ testError' = PleaseEnterEndpoint
          /\ UNCHANGED <<testing, testResult, testData, testCalls>>
     ELSE /\ Len(testCalls) < MaxTests
          /\ testing' = TRUE
          /\ testResult' = NullResult
          /\ testError' = NullStr
          /\ testData' = JNull
          /\ testCalls' = Append(testCalls,
               [request |-> testWidgetApi(apiEndpoint, OrUndefined(apiKey),
                                          apiKeyHeader, OrUndefined(getRequestBody)),
                status |-> "inflight"])
  /\ lastOp' = [NoOp EXCEPT !.op = "handleTestApi"]
  /\ UNCHANGED <<apiEndpoint, apiKey, apiKeyHeader, reportId, responseUrlPath,
                 cfgContentUrl>>
  /\ UNCHANGED <<dashVars, widgetVars, formVars, helperVars>>

\* The Test API button can be clicked (disabled={testing || !apiEndpoint}).
TestButtonEnabled_WhileTesting == Truthy(apiEndpoint)
TestButtonEnabled == ~testing /\ Truthy(apiEndpoint)

\* A click on the Test API button.
ClickTestApi ==
  /\ TestButtonEnabled
  /\ handleTestApi

\* The state handleTestApi sets for an answer that carries an error, or
\* for a rejection, with the message msg (lines 77-79 and 86-88).
TestFailed_PayloadKept(msg) ==
  /\ testError' = msg
  /\ UNCHANGED <<testResult, testData>>
TestFailed(msg) ==
  /\ testError' = msg
  /\ testResult' = NullResult
  /\ testData' = JNull

\* handleTestApi after its await, testWidgetApi resolved with result.
TestResolves(c, result) ==
  /\ c \in 1..Len(testCalls)
  /\ testCalls[c].status = "inflight"
  /\ testCalls' = [testCalls EXCEPT ![c].status = "resolved"]
  /\ IF Truthy(result.error)
     THEN TestFailed(result.error)
     ELSE /\ testResult' = Stringified(result.data)
          /\ testData' = result.data
          /\ testError' = NullStr
  /\ testing' = FALSE
  /\ lastOp' = [NoOp EXCEPT !.op = "testResolved", !.call = c, !.result = result]
  /\ UNCHANGED <<apiEndpoint, apiKey, apiKeyHeader, reportId, responseUrlPath,
                 cfgContentUrl>>
  /\ UNCHANGED <<dashVars, widgetVars, formVars, helperVars>>

\* handleTestApi after its await, testWidgetApi rejected with err.
TestRejects(c, err) ==
  /\ c \in 1..Len(testCalls)
  /\ testCalls[c].status = "inflight"
  /\ testCalls' = [testCalls EXCEPT ![c].status = "rejected"]
  /\ TestFailed(IF err.isError THEN err.message ELSE FailedToTestApi)
  /\ testing' = FALSE
  /\ lastOp' = [NoOp EXCEPT !.op = "testRejected", !.call = c, !.err = err]
  /\ UNCHANGED <<apiEndpoint, apiKey, apiKeyHeader, reportId, responseUrlPath,
                 cfgContentUrl>>
  /\ UNCHANGED <<dashVars, widgetVars, formVars, helperVars>>

\* The URL handlePathClick captures from the stored payload at path; '' when
\* it captures none.
CapturedUrl_AnyString(data, path) ==
  IF JTruthy(data) THEN extractValueFromPath(data, path) ELSE <<>>
CapturedUrl(data, path) ==
  IF JTruthy(data)
  THEN LET url == extractValueFromPath(data, path)
       IN  IF Truthy(url) /\ IsHttpUrl(url) THEN url ELSE <<>>
  ELSE <<>>

handlePathClick(path) ==
  /\ responseUrlPath' = path
  /\ cfgContentUrl' = IF CapturedUrl(testData, path) # <<>>
                      THEN CapturedUrl(testData, path)
                      ELSE cfgContentUrl
  /\ lastOp' = [NoOp EXCEPT !.op = "handlePathClick", !.path = path]
  /\ UNCHANGED <<apiEndpoint, apiKey, apiKeyHeader, reportId, testing,
                 testResult, testError, testData, testCalls>>
  /\ UNCHANGED <<dashVars, widgetVars, formVars, helperVars>>

\* A click in the JsonViewer, which is rendered while testResult is set.
ClickViewer(path) ==
  /\ ~testResult.isNull
  /\ path \in ClickablePaths(testResult.json, <<>>)
  /\ handlePathClick(path)

(***************************************************************************)
(*                  WidgetConfigModal: the form and submit                 *)
(***************************************************************************)
testVars == <<testing, testResult, testError, testData, testCalls>>

\* JSON.parse(widget.request_body).report_id for the stored bodies of the
\* model: the report id of a body that JSON.stringify({report_id}) wrote;
\* undefined for a text that is no JSON (the parse error is ignored) and for
\* JSON without that field.
StoredReportIds == { <<"o","l","d">> }
ParseReportId(text) ==
  LET ids == { value \in StoredReportIds : ReportIdObject(value) = text }
  IN  IF ids = {} THEN NullStr ELSE CHOOSE value \in ids : TRUE

\* Widgets the modal can be opened on for editing.
EditedWidget1 ==
  [isNull |-> FALSE, name |-> <<"S","a","l","e","s">>,
   api_endpoint |-> <<"h","t","t","p",":","/","/","e">>,
   api_key_header |-> <<"A","u","t","h">>,
   request_body |-> ReportIdObject(<<"o","l","d">>),
   response_url_path |-> <<"u","r","l">>, content_url |-> <<>>]
EditedWidget2 ==
  [isNull |-> FALSE, name |-> <<"S","t","o","c","k">>,
   api_endpoint |-> <<"h","t","t","p",":","/","/","e">>,
   api_key_header |-> <<>>,
   request_body |-> <<"o","o","p","s">>,
   response_url_path |-> <<"d","a","t","a",".","n">>, content_url |-> HttpA]
WidgetProps == { NoWidget, EditedWidget1, EditedWidget2 }

\* The modal opened on the widget prop w, after the [widget] effect ran
\* (lines 29-49): the fields of a widget being edited are filled in, the
\* key never is.
InitForm ==
  /\ InitDashboard /\ InitHtmlWidget /\ InitHelpers
  /\ \E w \in WidgetProps :
       /\ editingWidget = w
       /\ name = (IF w.isNull THEN <<>> ELSE w.name)
       /\ apiEndpoint = (IF w.isNull THEN <<>> ELSE w.api_endpoint)
       /\ apiKey = <<>>
       /\ apiKeyHeader = (IF ~w.isNull /\ Truthy(w.api_key_header)
                          THEN w.api_key_header ELSE XApiKey)
       /\ responseUrlPath = (IF w.isNull THEN <<"u","r","l">> ELSE w.response_url_path)
       /\ cfgContentUrl = (IF w.isNull THEN <<>> ELSE w.content_url)
       /\ reportId = (IF ~w.isNull /\ Truthy(w.request_body)
                         /\ Truthy(ParseReportId(w.request_body))
                      THEN ParseReportId(w.request_body) ELSE <<>>)
  /\ saving = FALSE
  /\ testing = FALSE
  /\ testResult = NullResult
  /\ testError = NullStr
  /\ testData = JNull
  /\ testCalls = <<>>
  /\ lastOp = NoOp
  /\ saved = NoPayload

\* What the user can type into the key, the header and the report id inputs.
KeyInputs == { <<>>, <<"k","1">> }
HeaderInputs == { <<>>, XApiKey }
ReportIdInputs == { <<>>, <<" ">>, <<" ","r","1"," ">> }

\* onChange of the key input
SetApiKey(value) ==
  /\ apiKey' = value
  /\ lastOp' = [NoOp EXCEPT !.op = "edit"]
  /\ UNCHANGED <<apiEndpoint, apiKeyHeader, reportId, responseUrlPath,
                 cfgContentUrl, testVars, formVars>>
  /\ UNCHANGED <<dashVars, widgetVars, helperVars>>

\* onChange of the key header input
SetApiKeyHeader(value) ==
  /\ apiKeyHeader' = value
  /\ lastOp' = [NoOp EXCEPT !.op = "edit"]
  /\ UNCHANGED <<apiEndpoint, apiKey, reportId, responseUrlPath,
                 cfgContentUrl, testVars, formVars>>
  /\ UNCHANGED <<dashVars, widgetVars, helperVars>>

\* onChange of the report id input
SetReportId(value) ==
  /\ reportId' = value
  /\ lastOp' = [NoOp EXCEPT !.op = "edit"]
  /\ UNCHANGED <<apiEndpoint, apiKey, apiKeyHeader, responseUrlPath,
                 cfgContentUrl, testVars, formVars>>
  /\ UNCHANGED <<dashVars, widgetVars, helperVars>>

\* The api_key field of the WidgetUpdate that handleSubmit builds: set only
\* if (apiKey); NullStr is the field left out.
UpdateApiKey_AlwaysSent == apiKey
UpdateApiKey == IF Truthy(apiKey) THEN apiKey ELSE NullStr

\* handleSubmit: the payload handed to onSave, a WidgetUpdate when a widget
\* is edited and a WidgetCreate when not; saving is set and, onSave not
\* being awaited, cleared again before the handler returns.
handleSubmit ==
  /\ saved' =
       [kind |-> IF ~editingWidget.isNull THEN "update" ELSE "create",
        name |-> name,
        api_endpoint |-> apiEndpoint,
        api_key |-> IF ~editingWidget.isNull THEN UpdateApiKey ELSE apiKey,
        api_key_header |-> apiKeyHeader,
        request_body |-> getRequestBody,
        response_url_path |-> responseUrlPath,
        content_url |-> cfgContentUrl]
  /\ saving' = FALSE
  /\ lastOp' = [NoOp EXCEPT !.op = "handleSubmit"]
  /\ UNCHANGED <<apiEndpoint, apiKey, apiKeyHeader, reportId, responseUrlPath,
                 cfgContentUrl, testVars, name, editingWidget>>
  /\ UNCHANGED <<dashVars, widgetVars, helperVars>>

\* The form of the modal: edits of its inputs, the test call and submit.
NextForm ==
  \/ \E value \in EndpointInputs : SetApiEndpoint(value)
  \/ \E value \in KeyInputs : SetApiKey(value)
  \/ \E value \in HeaderInputs : SetApiKeyHeader(value)
  \/ \E value \in ReportIdInputs : SetReportId(value)
  \/ ClickTestApi
  \/ handleSubmit

\* The modal as rendered: the handlers run when their controls allow it.
NextModal ==
  \/ \E value \in EndpointInputs : SetApiEndpoint(value)
  \/ \E value \in PathInputs : SetResponseUrlPath(value)
  \/ ClickTestApi
  \/ \E c \in 1..Len(testCalls) : \E result \in TestApiResults :
       TestResolves(c, result)
  \/ \E c \in 1..Len(testCalls) : \E err \in Rejections : TestRejects(c, err)
  \/ \E path \in PathsTried : ClickViewer(path)

\* The handlers of the modal on their own: each can run in every state,
\* whatever the controls that call it allow.
NextHandlers ==
  \/ \E value \in EndpointInputs : SetApiEndpoint(value)
  \/ \E value \in PathInputs : SetResponseUrlPath(value)
  \/ handleTestApi
  \/ \E c \in 1..Len(testCalls) : \E result \in TestApiResults :
       TestResolves(c, result)
  \/ \E c \in 1..Len(testCalls) : \E err \in Rejections : TestRejects(c, err)
  \/ \E path \in PathsTried : handlePathClick(path)

(***************************************************************************)
(*          JsonViewer and extractValueFromPath on a shown payload         *)
(***************************************************************************)
\* What JsonViewer attaches an onPathClick to for data rendered at path: each
\* object key, with the path and the value of that key, and each string that
\* starts with http:// or https://, with the path it is rendered at.
RECURSIVE ClickTargets(_, _)
ClickTargets(data, path) ==
  CASE data.t = "string" ->
         IF IsHttpUrl(data.s) THEN {[path |-> path, value |-> data]} ELSE {}
    [] data.t = "array" ->
         UNION { ClickTargets(data.kids[k].v, ChildPath(path, IndexText(k - 1))) :
                   k \in 1..Len(data.kids) }
    [] data.t = "object" ->
         UNION { {[path |-> ChildPath(path, data.kids[k].k), value |-> data.kids[k].v]}
                   \cup ClickTargets(data.kids[k].v, ChildPath(path, data.kids[k].k)) :
                   k \in 1..Len(data.kids) }
    [] OTHER -> {}

\* Payloads a test call can store and the viewer then shows: a string at the
\* root, keys that are empty or hold a '.', arrays, and values of every type.
ViewerPayloads ==
  { ExamplePayload,
    OtherPayload,
    JStr(HttpsO),
    JStr(<<"p","l","a","i","n">>),
    JNum(42),
    JArr(<< JStr(HttpA), JArr(<< JStr(HttpsO), JBool(TRUE) >>), JNull >>),
    JObj(<< Entry(<<"a",".","b">>, JStr(HttpsO)) >>),
    JObj(<< Entry(<<"a">>, JObj(<< Entry(<<"b">>, JStr(HttpA)) >>)),
            Entry(<<"a",".","b">>, JStr(HttpsO)) >>),
    JObj(<< Entry(<<>>, JStr(HttpsO)) >>),
    JObj(<< Entry(<<"a">>, JObj(<< Entry(<<>>, JStr(HttpsO)) >>)) >>),
    JObj(<< Entry(<<>>, JObj(<< Entry(<<"k">>, JStr(HttpsO)) >>)) >>),
    JObj(<< Entry(<<"0">>, JStr(HttpA)),
            Entry(<<"l">>, JArr(<< JObj(<< Entry(<<"u">>, JStr(HttpsO)) >>) >>)) >>),
    JNull,
    JObj(<< Entry(<<"x">>, JObj(<< Entry(<<"y">>, JObj(<< Entry(<<"z">>, JStr(HttpA)),
                                                         Entry(<<"w">>, JNum(1)) >>)) >>)) >>),
    JObj(<< Entry(<<"n">>, JNull), Entry(<<"b">>, JBool(FALSE)),
            Entry(<<"o">>, JObj(<<>>)), Entry(<<"e">>, JArr(<<>>)),
            Entry(<<"s">>, JStr(<<>>)) >>) }

\* The modal after a test call stored the payload data: the state lines
\* 81-83 leave, the viewer on display.
InitViewer ==
  /\ InitDashboard /\ InitHtmlWidget
  /\ apiEndpoint = <<"h","t","t","p",":","/","/","e">>
  /\ apiKey = <<>>
  /\ apiKeyHeader = XApiKey
  /\ reportId = <<>>
  /\ responseUrlPath = <<"u","r","l">>
  /\ cfgContentUrl = <<>>
  /\ testing = FALSE
  /\ testError = NullStr
  /\ name = <<>> /\ saving = FALSE /\ editingWidget = NoWidget
  /\ saved = NoPayload
  /\ InitHelpers
  /\ \E data \in ViewerPayloads :
       /\ testData = data
       /\ testResult = Stringified(data)
       /\ testCalls = << [request |-> testWidgetApi(apiEndpoint, NullStr,
                                                     XApiKey, NullStr),
                          status |-> "resolved"] >>
       /\ lastOp = [NoOp EXCEPT !.op = "testResolved", !.call = 1,
                                !.result = [data |-> data, error |-> NullStr]]

\* The shown payload: every click the viewer offers, and edits of the path.
NextViewer ==
  \/ \E path \in ClickablePaths(testResult.json, <<>>) : ClickViewer(path)
  \/ \E value \in PathInputs : SetResponseUrlPath(value)

(***************************************************************************)
(*                  detectContentType called on its own                    *)
(***************************************************************************)
ContentKinds == {"html", "markdown", "csv", "image", "unknown"}

\* URLs a call can carry: none (undefined), the empty string, each image
\* extension, the other extensions the rules know, in either case and with
\* query strings, and URLs no rule applies to.
DetectUrls ==
  { NullStr,
    <<>>,
    <<"f","o","o",".","p","n","g","?","x","=","1">>,
    <<"a",".","J","P","G">>,
    <<"b",".","j","p","e","g">>,
    <<"c",".","g","i","f">>,
    <<"d",".","W","e","b","P","?","w","=","2">>,
    <<"e",".","s","v","g">>,
    <<"f",".","b","m","p">>,
    <<"g",".","i","c","o">>,
    <<"r",".","m","d">>,
    <<"R",".","M","a","r","k","d","o","w","n","?","v","=","2">>,
    <<"t",".","c","s","v","?","x">>,
    <<"p",".","h","t","m","l">>,
    <<"P",".","H","T","M">>,
    <<"q",".","t","x","t">>,
    <<"x","?","y",".","p","n","g">>,
    <<"p","n","g">>,
    <<"h",".","p","d","f","?","f","=",".","m","d">> }

\* Contents a call can carry: what each content rule looks for, alone and
\* combined, and plain text.
DetectContents ==
  { <<>>,
    <<"h","e","l","l","o">>,
    <<"<","!","D","O","C","T","Y","P","E"," ","h","t","m","l",">">>,
    <<"<","!","d","o","c","t","y","p","e"," ","a",",","b","\n","c",",",
      "d">>,
    <<"<","h","t","m","l",">","<","p",">">>,
    <<"<","H","T","M","L",">">>,
    <<"a",",","b","\n","1",",","2">>,
    <<"-"," ","a",",","b","\n","-"," ","c",",","d">>,
    <<"#"," ","t","\n","1",",","2","\n","3",",","4">>,
    <<"a",",","b">>,
    <<"a",",","b","\n","\n","c",",","d">>,
    <<"#"," ","T","i","t","l","e">>,
    <<"*","*","b","*","*"," ","x">>,
    <<"-"," ","i","t","e","m">>,
    <<"1","."," ","o","n","e">>,
    <<"s","e","e"," ","[","a","]","(","b",")">>,
    <<Backtick,Backtick,Backtick,"j","s">>,
    <<">"," ","q">>,
    <<"x"," ","<","b",">","y","<","/","b",">">>,
    <<" "," ","<","h","t","m","l",">"," "," ">>,
    <<"A"," ","<","B",">">> }

\* Before the call: its arguments.
InitDetect ==
  /\ InitDashboard /\ InitHtmlWidget /\ InitModal
  /\ detectArgs \in [content : DetectContents, url : DetectUrls]
  /\ detected = "none"
  /\ csvText = <<>>
  /\ csvRows = <<>>
  /\ extractArgs = NoExtractArgs
  /\ extracted = NotExtracted

\* detectContentType(content, url) is called and returns.
CallDetect ==
  /\ detected' = detectContentType(detectArgs.content, detectArgs.url)
  /\ UNCHANGED <<detectArgs, csvText, csvRows, extractArgs, extracted>>
  /\ UNCHANGED <<dashVars, widgetVars, modalVars>>

NextDetect == CallDetect

(***************************************************************************)
(*                                parseCSV                                 *)
(***************************************************************************)
\* inQuotes && line[i + 1] === '"': the quote at i starts a doubled quote.
DoubledQuote_Never(line, i, inQuotes) == FALSE
DoubledQuote(line, i, inQuotes) ==
  inQuotes /\ i + 1 <= Len(line) /\ line[i + 1] = "\""

\* The loop over the characters of one line from position i on (1-based),
\* with the loop's variables current, inQuotes and result; then the push
\* of the last field.
RECURSIVE ParseLine(_, _, _, _, _)
ParseLine(line, i, current, inQuotes, result) ==
  IF i > Len(line) THEN Append(result, Trim(current))
  ELSE IF line[i] = "\""
       THEN IF DoubledQuote(line, i, inQuotes)
            THEN ParseLine(line, i + 2, Append(current, "\""), inQuotes, result)
            ELSE ParseLine(line, i + 1, current, ~inQuotes, result)
  ELSE IF line[i] = "," /\ ~inQuotes
       THEN ParseLine(line, i + 1, <<>>, inQuotes, Append(result, Trim(current)))
  ELSE ParseLine(line, i + 1, Append(current, line[i]), inQuotes, result)

\* parseCSV splitting the text as given, without trimming it first.
parseCSV_Untrimmed(contentText) ==
  LET lines == Split(contentText, "\n")
  IN  [k \in 1..Len(lines) |-> ParseLine(lines[k], 1, <<>>, FALSE, <<>>)]

parseCSV(contentText) ==
  LET lines == Split(Trim(contentText), "\n")
  IN  [k \in 1..Len(lines) |-> ParseLine(lines[k], 1, <<>>, FALSE, <<>>)]

\* Texts parseCSV is called on: every text of up to MaxCsvLen characters
\* out of a letter, the comma, the double quote, the blank and the line
\* feed, and longer texts with quoted fields.
CsvAlphabet == {"a", ",", "\"", " ", "\n"}
CsvTexts ==
  UNION { [1..n -> CsvAlphabet] : n \in 0..MaxCsvLen }
    \cup
    { <<"a",",","b","\n","1",",","2">>,
      <<"\"","a",",","\"","\"","b",",","c","\"","\"","\"">>,
      <<"\"","a",",","b","\"",",","c","\n","1">>,
      <<" ","x"," ",","," ","\"","y"," ","z","\""," ",",","\n","\"","p",
        "\"","\"","q","\"">>,
      <<"a",",","b",",","c","\n","1",",","2","\n","\n","3">> }

\* Before the call: its argument.
InitParse ==
  /\ InitDashboard /\ InitHtmlWidget /\ InitModal
  /\ detectArgs = NoDetectArgs
  /\ detected = "none"
  /\ csvText \in CsvTexts
  /\ csvRows = <<>>
  /\ extractArgs = NoExtractArgs
  /\ extracted = NotExtracted

\* parseCSV(content) is called and returns.
CallParseCSV ==
  /\ csvRows' = parseCSV(csvText)
  /\ UNCHANGED <<detectArgs, detected, csvText, extractArgs, extracted>>
  /\ UNCHANGED <<dashVars, widgetVars, modalVars>>

NextParse == CallParseCSV

(***************************************************************************)
(*                extractValueFromPath called on its own                   *)
(***************************************************************************)
\* The paths a call can carry: keys that
\* exist and keys that do not, indices in and out of range, segments that
\* are no number, and paths that go on after a primitive.
ExtractPaths ==
  { <<>>,
    <<"q">>,
    <<"d","a","t","a">>,
    <<"d","a","t","a",".","u","r","l">>,
    <<"d","a","t","a",".","n">>,
    <<"d","a","t","a",".","s">>,
    <<"d","a","t","a",".","u","r","l",".","z">>,
    <<"d","a","t","a",".","q",".","z">>,
    <<"l">>,
    <<"l",".","0">>,
    <<"l",".","1">>,
    <<"l",".","2">>,
    <<"l",".","9">>,
    <<"l",".","x">>,
    <<"l",".","-","1">>,
    <<"l","."," ","0">>,
    <<"l",".","0","x">>,
    <<"u","r","l">>,
    <<"u","r","l",".","0">>,
    <<"0">>,
    <<"1">>,
    <<"2">>,
    <<"3">>,
    <<"1",".","0">>,
    <<"1",".","1">>,
    <<"1",".","1",".","0">>,
    <<"a">>,
    <<"a",".","b">>,
    <<"x",".","y",".","z">>,
    <<"x",".","y",".","w">>,
    <<"x",".","y",".","z",".","q">>,
    <<"n">>,
    <<"n",".","k">>,
    <<"b">>,
    <<"o">>,
    <<"e">>,
    <<"e",".","0">>,
    <<"s">>,
    <<"0",".","u">>,
    <<"l",".","0",".","u">>,
    <<"l","e","n","g","t","h">>,
    <<"p","l","a","i","n">> }

\* Before the call: its arguments.
InitExtract ==
  /\ InitDashboard /\ InitHtmlWidget /\ InitModal
  /\ detectArgs = NoDetectArgs
  /\ detected = "none"
  /\ csvText = <<>>
  /\ csvRows = <<>>
  /\ extractArgs \in [data : ViewerPayloads, path : ExtractPaths]
  /\ extracted = NotExtracted

\* extractValueFromPath(data, path) is called and returns.
CallExtract ==
  /\ extracted' = [called |-> TRUE,
                   value |-> extractValueFromPath(extractArgs.data, extractArgs.path)]
  /\ UNCHANGED <<detectArgs, detected, csvText, csvRows, extractArgs>>
  /\ UNCHANGED <<dashVars, widgetVars, modalVars>>

NextExtract == CallExtract

(***************************************************************************)
(*             The asynchronous operations and their failures              *)
(***************************************************************************)
\* The layouts of GridLayouts that hold an item without minimums for every
\* widget on display.
ReportedWhole(ws) ==
  { l \in GridLayouts(ws) :
      Len(l) = Len(ws) /\ \A k \in 1..Len(l) : l[k].minW = Undefined }

\* The answers to the content fetches of the grid's children: a page, or
\* an error of the widget's API.
GridContents ==
  { r \in WidgetContents :
      /\ r.content_url = NullStr
      /\ \/ r.html_content = <<"<","h","t","m","l",">">> /\ r.error = NullStr
         \/ r.html_content = NullStr /\ r.error = <<"b","o","o","m">> }

\* loadContent of the child k after its await: its latest fetch resolved
\* with result and the child shows it.
ContentArrives(k, result) ==
  /\ k \in 1..Len(instances)
  /\ instances[k].loading
  /\ LET st == Loaded(result, instances[k].contentType)
     IN  instances' = [instances EXCEPT ![k].loading = FALSE,
                                        ![k].content = st.content,
                                        ![k].contentType = st.contentType,
                                        ![k].error = st.error]
  /\ UNCHANGED <<widgets, dashLoading, dashError, pendingLayoutRef,
                 saveTimeoutRef, timers, nextTimerId, now, events, calls, logged,
                 unhandled, deletes, alerts, edits, backend, contentFetches>>
  /\ UNCHANGED <<widgetVars, modalVars, helperVars>>

\* The Dashboard with the children of its grid. Layout persistence and
\* the saves of the modal share no state: the saves start once the layout
\* changes are persisted.
NextDashboardContent ==
  \/ \E data \in BackendWidgetLists : LoadWidgetsResolves(data)
  \/ /\ edits = <<>>
     /\ \/ \E newLayout \in ReportedWhole(widgets) : HandleLayoutChange(newLayout)
        \/ \E tm \in timers : TimerFires(tm)
        \/ \E c \in 1..Len(calls) : SaveLayoutResolves(c)
        \/ Tick
  \/ /\ timers = {}
     /\ \A c \in 1..Len(calls) : calls[c].status # "inflight"
     /\ \/ \E target \in {NoTarget} \cup { widgets[k].id : k \in 1..Len(widgets) } :
             \E newName \in SavedNames : HandleSaveWidget(target, newName)
        \/ \E c \in 1..Len(edits) : SaveWidgetResolves(c)
  \/ \E k \in 1..Len(instances) : \E result \in GridContents :
       ContentArrives(k, result)

\* The Dashboard's backend calls, each of them failing when it completes
\* (the list itself loads or fails to load). Layout persistence on one
\* side, removals and saves of the modal on the other, share no state:
\* each side runs while the other has not started.
NextDashboardFailures ==
  \/ \E data \in BackendWidgetLists : LoadWidgetsResolves(data)
  \/ LoadWidgetsRejects
  \/ /\ deletes = <<>> /\ edits = <<>>
     /\ \/ \E newLayout \in ReportedWhole(widgets) : HandleLayoutChange(newLayout)
        \/ \E tm \in timers : TimerFires(tm)
        \/ \E c \in 1..Len(calls) : SaveLayoutRejects(c)
        \/ Tick
  \/ /\ events = <<>> /\ now = 0
     /\ \/ \E k \in 1..Len(widgets) : HandleDeleteWidget(widgets[k].id, TRUE)
        \/ \E c \in 1..Len(deletes) : DeleteRejects(c)
        \/ \E target \in {NoTarget} \cup { widgets[k].id : k \in 1..Len(widgets) } :
             \E newName \in SavedNames : HandleSaveWidget(target, newName)
        \/ \E c \in 1..Len(edits) : SaveWidgetRejects(c)

\* The three components share no state: each of them runs from the initial
\* state of the other two.
NextAsync ==
  \/ InitHtmlWidget /\ InitModal /\ NextDashboardFailures
  \/ InitDashboard /\ InitModal /\ NextHtmlWidget
  \/ InitDashboard /\ InitHtmlWidget /\ NextModal

(***************************************************************************)
(*                           Specifications                                *)
(***************************************************************************)
Init == InitDashboard /\ InitHtmlWidget /\ InitModal /\ InitHelpers

\* The Dashboard and its debounced layout persistence.
SpecDashboard == Init /\ [][NextDashboard]_vars
\* The Dashboard, layout changes and the removal of widgets.
SpecDashboardDelete == Init /\ [][NextDashboardDelete]_vars
\* The Dashboard, layout persistence and the removal of widgets.
SpecDashboardRace == Init /\ [][NextDashboardRace]_vars
\* The Dashboard, layout persistence and the saves of the modal.
SpecDashboardEdit == Init /\ [][NextDashboardEdit]_vars
\* The Dashboard with the HtmlWidget children of its grid.
SpecDashboardContent == Init /\ [][NextDashboardContent]_vars
\* Every asynchronous operation of the three components.
SpecAsync == Init /\ [][NextAsync]_vars
\* One HtmlWidget and its content fetches.
SpecHtmlWidget == Init /\ [][NextHtmlWidget]_vars
\* The WidgetConfigModal as rendered.
SpecModal == Init /\ [][NextModal]_vars
\* The handlers of the WidgetConfigModal, run in any state.
SpecModalHandlers == Init /\ [][NextHandlers]_vars
\* The JsonViewer showing a stored payload.
SpecViewer == InitViewer /\ [][NextViewer]_vars
\* parseCSV, called once on each text.
SpecParse == InitParse /\ [][NextParse]_vars
\* detectContentType, called once on each pair of arguments.
SpecDetect == InitDetect /\ [][NextDetect]_vars
\* The form of the WidgetConfigModal, opened to create or to edit a widget.
SpecForm == InitForm /\ [][NextForm]_vars
\* extractValueFromPath, called once on each payload and path.
SpecExtract == InitExtract /\ [][NextExtract]_vars

(***************************************************************************)
(*                  Properties of the layout persistence                   *)
(***************************************************************************)
\* The quiet time after event i: up to the next event, or up to now.
GapAfter(i) ==
  IF i < Len(events) THEN events[i + 1].t - events[i].t ELSE now - events[i].t

\* The events that a quiet period of DebounceMs follows, in order.
QuietClosers ==
  SelectSeq([i \in 1..Len(events) |-> i], LAMBDA i : GapAfter(i) >= DebounceMs)

\* The call body carries the ids and the x, y, w, h of the layout.
CarriesLayout(body, layout) ==
  /\ Len(body) = Len(layout)
  /\ \A k \in 1..Len(body) :
       /\ body[k].id = layout[k].i
       /\ body[k].layout.x = layout[k].x /\ body[k].layout.y = layout[k].y
       /\ body[k].layout.w = layout[k].w /\ body[k].layout.h = layout[k].h

\* C1: once the timer callbacks that are due have run, the bulkUpdateLayout
\* calls issued are, in order, one per layout-change event that was followed
\* by a quiet period of at least 500 ms, each carrying the ids and the
\* x, y, w, h of that event's layout; events less than 500 ms before the
\* next one are coalesced into it and cause no call of their own.
C1_DebounceCoalescing ==
  ~TimerIsDue =>
    /\ Len(calls) = Len(QuietClosers)
    /\ \A j \in 1..Len(calls) :
         j <= Len(QuietClosers) =>
           CarriesLayout(calls[j].widgets, events[QuietClosers[j]].layout)

\* Two events 250 ms apart with different layouts, then the quiet period:
\* one call, with the second event's layout.
C1_Witness ==
  /\ Len(events) = 2
  /\ events[2].t - events[1].t > 0
  /\ events[2].t - events[1].t < DebounceMs
  /\ events[1].layout # events[2].layout
  /\ Len(calls) = 1
  /\ CarriesLayout(calls[1].widgets, events[2].layout)
  /\ ~TimerIsDue

\* C2: every bulkUpdateLayout call is issued at least 500 ms after the
\* layout-change event that was the most recent one when it was issued; so
\* while events keep arriving less than 500 ms apart none is issued.
C2_NoCallBeforeQuiet ==
  \A c \in 1..Len(calls) :
    /\ calls[c].ev >= 1
    /\ calls[c].t - events[calls[c].ev].t >= DebounceMs

\* A stream of two events still going on 250 ms after its second event,
\* 500 ms after its first one (when the first event's own timer would have
\* been due), with no call issued.
C2_Witness ==
  /\ Len(events) = 2
  /\ events[2].t - events[1].t < DebounceMs
  /\ now - events[1].t >= DebounceMs
  /\ now - events[2].t < DebounceMs
  /\ calls = <<>>

\* C4, its steps: the step in which a bulkUpdateLayout call fails issues no
\* call, arms no timer, lets no rejection escape and leaves the widget list
\* and the pending snapshot as they were.
FailureStep ==
  (\E c \in 1..Len(calls) :
     /\ calls[c].status = "inflight"
     /\ c <= Len(calls') /\ calls'[c].status = "failed")
  => /\ Len(calls') = Len(calls)
     /\ widgets' = widgets
     /\ timers' = timers
     /\ pendingLayoutRef' = pendingLayoutRef
     /\ unhandled' = unhandled
     /\ logged' = logged + 1

\* C4, its states: no two calls are issued for the same layout-change event.
OneCallPerEvent ==
  \A c \in 1..Len(calls) : \A d \in 1..Len(calls) :
    c < d => calls[c].ev < calls[d].ev

\* C4: a failed bulkUpdateLayout call is not retried (a later call follows
\* a new layout-change event only), the failure does not escape saveLayout,
\* and the widget list is the same after the failure as before it.
C4_FailureNotRetried == []OneCallPerEvent /\ [][FailureStep]_vars

\* A call failed and was logged; the list still holds the layout the event
\* set, not the backend's.
C4_Witness ==
  /\ Len(calls) = 1
  /\ calls[1].status = "failed"
  /\ logged = 1
  /\ Len(events) = 1
  /\ widgets = ApplyLayout(widgets, events[1].layout)
  /\ widgets[1].layout.x # BackendWidget1.layout.x

(***************************************************************************)
(*                   Properties of the content fetch                       *)
(***************************************************************************)
\* A step that handles the completion of a fetch.
Completes == lastCompletion' # lastCompletion

\* The display state the completion just handled produces, from the
\* contentType held before it.
Produced(done, prevType) ==
  IF done.kind = "rejected"
  THEN [content |-> NullStr, contentUrl |-> NullStr, contentType |-> prevType,
        error |-> LoadErrorMessage(done.err)]
  ELSE [content |-> Loaded(done.result, prevType).content,
        contentUrl |-> Loaded(done.result, prevType).contentUrl,
        contentType |-> Loaded(done.result, prevType).contentType,
        error |-> Loaded(done.result, prevType).error]

StaleIgnored ==
  Completes =>
    IF lastCompletion'.superseded
    THEN UNCHANGED <<content, contentUrl, contentType, error, loading>>
    ELSE /\ [content |-> content', contentUrl |-> contentUrl',
             contentType |-> contentType', error |-> error']
              = Produced(lastCompletion', contentType)
         /\ loading' = FALSE

\* While the run of the effect started last is in flight, the widget shows
\* loading and no error, whatever completed meanwhile.
LatestPending ==
  (mounted /\ effects # <<>> /\ effects[Len(effects)].status = "inflight")
    => loading /\ error = NullStr

\* C3: the completion of a fetch that was superseded (a later run of the
\* effect exists, or the widget is unmounted) changes none of content,
\* contentUrl, contentType, error and loading, whether it resolves or
\* rejects and whether it comes before or after the later fetch's; the
\* completion of the fetch started last sets them from its own result.
C3_StaleResponseDiscarded == []LatestPending /\ [][StaleIgnored]_vars

\* The second fetch completed first and the first, superseded, one resolved
\* after it with a text: the display is still the second one's.
C3_Witness ==
  /\ mounted
  /\ Len(effects) = 2
  /\ effects[1].status = "done" /\ effects[2].status = "done"
  /\ lastCompletion.e = 1
  /\ lastCompletion.superseded
  /\ lastCompletion.kind = "resolved"
  /\ Truthy(lastCompletion.result.html_content)
  /\ ~Truthy(lastCompletion.result.error)
  /\ content = NullStr
  /\ error = <<"5","0","0">>
  /\ ~loading

\* The completion handled last is the resolved, not superseded one of the
\* fetch started last, and no fetch was started since.
SettledOnLatest ==
  /\ mounted
  /\ lastCompletion.kind = "resolved"
  /\ ~lastCompletion.superseded
  /\ lastCompletion.e = Len(effects)

\* C5: after a fetch that is not superseded resolves, the first matching
\* rule decides: (1) a non-empty error: error is that message, content and
\* contentUrl are null; (2) else a content_url with an image extension
\* before its query string: contentType image, contentUrl that URL, content
\* and error null, detectContentType not called; (3) else a non-empty
\* html_content: content is that text, contentType is
\* detectContentType(html_content, content_url), error null; (4) else error
\* is 'No content received', content and contentUrl are null.
C5_LoadContentRules ==
  SettledOnLatest =>
    LET r == lastCompletion.result
    IN  IF Truthy(r.error)
        THEN error = r.error /\ content = NullStr /\ contentUrl = NullStr
        ELSE IF Truthy(r.content_url) /\ isImageUrl(r.content_url)
        THEN /\ contentType = "image" /\ contentUrl = r.content_url
             /\ content = NullStr /\ error = NullStr
             /\ ~lastCompletion.detected
        ELSE IF Truthy(r.html_content)
        THEN /\ content = r.html_content
             /\ contentType = detectContentType(r.html_content, r.content_url)
             /\ error = NullStr
             /\ lastCompletion.detected
        ELSE /\ error = NoContentReceived
             /\ content = NullStr /\ contentUrl = NullStr

\* An answer with an upper-case image extension before a query string and a
\* text: the image rule won over the text rule.
C5_Witness ==
  /\ SettledOnLatest
  /\ lastCompletion.result.content_url = <<"c",".","P","n","g","?","v","=","1">>
  /\ Truthy(lastCompletion.result.html_content)
  /\ lastCompletion.result.error = <<>>
  /\ contentType = "image"
  /\ content = NullStr
  /\ ~loading

(***************************************************************************)
(*                 Properties of the test-call workflow                    *)
(***************************************************************************)
InFlight == { c \in 1..Len(testCalls) : testCalls[c].status = "inflight" }

\* The state of the workflow, read from the modal's state.
Phase ==
  IF testing THEN "testing"
  ELSE IF testError # NullStr THEN "failure"
  ELSE IF ~testResult.isNull THEN "success"
  ELSE "idle"

\* A test call is started only while none is in flight, from idle, success
\* or failure, and the workflow is in testing right after.
StartStep ==
  Len(testCalls') > Len(testCalls) =>
    /\ InFlight = {}
    /\ Phase \in {"idle", "success", "failure"}
    /\ Phase' = "testing"

\* A test call that is answered or rejected leaves testing for success (the
\* payload stored, no error) or for failure (the error stored, no payload).
EndStep ==
  (\E c \in InFlight : c <= Len(testCalls') /\ testCalls'[c].status # "inflight")
  => /\ Phase = "testing"
     /\ ~testing'
     /\ \/ /\ Phase' = "success"
           /\ lastOp'.op = "testResolved"
           /\ testData' = lastOp'.result.data
           /\ testError' = NullStr
        \/ /\ Phase' = "failure"
           /\ testResult'.isNull /\ testData' = JNull

\* testing is set exactly while a test call is in flight, and one at most is.
TestingWhileInFlight ==
  /\ testing <=> InFlight # {}
  /\ Cardinality(InFlight) <= 1

\* From success and from failure a new test call can be started, given an
\* endpoint (and a call left within the model's bound).
CanRestart ==
  (Phase \in {"success", "failure"} /\ Truthy(apiEndpoint)
     /\ Len(testCalls) < MaxTests)
  => ENABLED ClickTestApi

\* C6: the test-call workflow is the state machine idle -> testing ->
\* {success, failure}: testing is entered only from idle, success or
\* failure, never while a test call is in flight; every answered or
\* rejected test call leaves testing for exactly one of success and failure
\* with the testing flag false; a new test call can be started from either.
C6_TestWorkflow ==
  /\ [](TestingWhileInFlight /\ CanRestart)
  /\ [][StartStep /\ EndStep]_vars

\* A second test call in flight, started after the first one had ended.
C6_Witness ==
  /\ Len(testCalls) = 2
  /\ testCalls[1].status = "rejected"
  /\ testCalls[2].status = "inflight"
  /\ testing
  /\ testError = NullStr

\* C7: handleTestApi run with an empty endpoint sets the validation error,
\* issues no testWidgetApi call and leaves the testing flag as it was.
C7_EmptyEndpointRejected ==
  [][(lastOp'.op = "handleTestApi" /\ apiEndpoint = <<>>)
       => /\ testError' = PleaseEnterEndpoint
          /\ testCalls' = testCalls
          /\ testing' = testing]_vars

\* handleTestApi has run in the fresh modal, whose endpoint is empty.
C7_Witness ==
  /\ lastOp.op = "handleTestApi"
  /\ apiEndpoint = <<>>
  /\ testError = PleaseEnterEndpoint
  /\ testCalls = <<>>
  /\ ~testing

\* C8: when a test call ends in failure (an answer with a non-empty error,
\* or a rejection), testError is the error message and testData and
\* testResult are null, whatever payload was stored before; when it ends in
\* success, testData is the decoded payload and testError is null.
C8_TestOutcomeStored ==
  [][/\ (lastOp'.op = "testResolved" /\ lastOp' # lastOp) =>
          IF Truthy(lastOp'.result.error)
          THEN /\ testError' = lastOp'.result.error
               /\ testData' = JNull /\ testResult'.isNull
          ELSE /\ testData' = lastOp'.result.data
               /\ testError' = NullStr
     /\ (lastOp'.op = "testRejected" /\ lastOp' # lastOp) =>
          /\ testError' = (IF lastOp'.err.isError THEN lastOp'.err.message
                           ELSE FailedToTestApi)
          /\ testData' = JNull /\ testResult'.isNull]_vars

\* Two test calls at once: the first stored a payload, the second then
\* ended with an error.
C8_Witness ==
  /\ Len(testCalls) = 2
  /\ testCalls[1].status = "resolved"
  /\ lastOp.op = "testResolved"
  /\ lastOp.call = 2
  /\ lastOp.result.error = <<"b","a","d">>
  /\ testError = <<"b","a","d">>
  /\ testData = JNull
  /\ testResult.isNull

\* C9: the stored test payload (testData, testResult) and the stored error
\* message (testError) are never both present.
C9_PayloadXorError ==
  ~((~testResult.isNull \/ testData # JNull) /\ testError # NullStr)

\* C10: handlePathClick(path) sets responseUrlPath to path; it sets the
\* captured URL to the string extractValueFromPath finds at path in the
\* stored payload when that string begins with http:// or https://, and
\* leaves the captured URL as it was in every other case. With the payload
\* {data: {url: 'https://x/y.pdf', n: 42, ...}}: data.url captures
\* https://x/y.pdf, data.n changes the path only.
C10_PathClick ==
  [][(lastOp'.op = "handlePathClick" /\ lastOp' # lastOp) =>
       LET path == lastOp'.path
           found == extractValueFromPath(testData, path)
       IN  /\ responseUrlPath' = path
           /\ IF JTruthy(testData) /\ IsHttpUrl(found)
              THEN cfgContentUrl' = found
              ELSE cfgContentUrl' = cfgContentUrl
           /\ (testData = ExamplePayload /\ path = <<"d","a","t","a",".","u","r","l">>)
                => cfgContentUrl' = UrlText
           /\ (testData = ExamplePayload /\ path = <<"d","a","t","a",".","n">>)
                => cfgContentUrl' = cfgContentUrl
           /\ UNCHANGED <<testData, testResult, testError, testing, apiEndpoint>>]_vars

\* The URL was captured at data.url, then the key n (42) was clicked: the
\* path is data.n and the captured URL is still the one of data.url.
C10_Witness ==
  /\ lastOp.op = "handlePathClick"
  /\ lastOp.path = <<"d","a","t","a",".","n">>
  /\ testData = ExamplePayload
  /\ responseUrlPath = <<"d","a","t","a",".","n">>
  /\ cfgContentUrl = UrlText

(***************************************************************************)
(*        Properties of the path round trip (viewer and extraction)        *)
(***************************************************************************)
\* What the claim expects of extractValueFromPath for a click target: the
\* text of the value the path was attached to when it is a string, '' else.
Attached(target) ==
  IF target.value.t = "string" THEN target.value.s ELSE <<>>

\* C11: for the payload on display and every path JsonViewer passes to
\* onPathClick for a key or a URL-like string in it (keys that are empty or
\* hold a '.', and a URL string at the root, included),
\* extractValueFromPath(payload, path) is the value the path was attached to
\* when that value is a string, and '' when it is not a string.
C11_ExtractInvertsViewer ==
  ~testResult.isNull =>
    \A target \in ClickTargets(testResult.json, <<>>) :
      extractValueFromPath(testData, target.path) = Attached(target)

(***************************************************************************)
(*                  Properties of the form and of submit                   *)
(***************************************************************************)
\* C12: the WidgetUpdate that a submit in edit mode hands to onSave has no
\* api_key field when the key input is blank, and has the field, equal to
\* the typed value, exactly when the input is not empty.
C12_BlankKeyOmitted ==
  [][(lastOp'.op = "handleSubmit" /\ ~editingWidget.isNull) =>
       /\ saved'.kind = "update"
       /\ (apiKey = <<>>) <=> (saved'.api_key = NullStr)
       /\ apiKey # <<>> => saved'.api_key = apiKey]_vars

\* A widget is edited, a test call was made with a typed key, the key input
\* was emptied again and the form submitted: the update leaves api_key out.
C12_Witness ==
  /\ lastOp.op = "handleSubmit"
  /\ ~editingWidget.isNull
  /\ apiKey = <<>>
  /\ saved.kind = "update"
  /\ saved.api_key = NullStr
  /\ Len(testCalls) = 1
  /\ testCalls[1].request.api_key = <<"k","1">>

\* The text {"report_id":"r1"}.
ReportIdR1 ==
  <<"{", "\"", "r","e","p","o","r","t","_","i","d", "\"", ":", "\"",
    "r","1", "\"", "}">>

\* The request body the claim expects for the report id input: the JSON
\* object with the one field report_id, the trimmed input, or none ('') for
\* a blank input.
ExpectedBody ==
  IF Trim(reportId) # <<>> THEN ReportIdObject(Trim(reportId)) ELSE <<>>

\* C13: the request body of a test call and of a submit is computed from
\* the report id input at the moment of the call: the JSON object
\* {report_id: trimmed input} when the trimmed input is not empty, else no
\* body in the test call and an empty request_body in the submit, whatever
\* request_body the edited widget has stored. The test call also carries
\* the endpoint, the key only when it is not empty, and the header name,
\* X-API-Key when none is given.
C13_BodyFromReportId ==
  [][/\ Len(testCalls') > Len(testCalls) =>
          LET request == testCalls'[Len(testCalls')].request
          IN  /\ request.api_endpoint = apiEndpoint
              /\ request.api_key = (IF apiKey # <<>> THEN apiKey ELSE NullStr)
              /\ request.api_key_header =
                   (IF apiKeyHeader # <<>> THEN apiKeyHeader ELSE XApiKey)
              /\ request.request_body =
                   (IF ExpectedBody # <<>> THEN ExpectedBody ELSE NullStr)
              /\ reportId = <<" ","r","1"," ">> => request.request_body = ReportIdR1
              /\ reportId = <<" ">> => request.request_body = NullStr
     /\ lastOp'.op = "handleSubmit" =>
          /\ saved'.request_body = ExpectedBody
          /\ reportId = <<" ","r","1"," ">> => saved'.request_body = ReportIdR1
          /\ reportId = <<" ">> => saved'.request_body = <<>>]_vars

\* The widget edited has {"report_id":"old"} stored; a test call was made
\* with the report id input blank and the header input emptied (no body,
\* X-API-Key), then the report id r1 was typed and the form submitted.
C13_Witness ==
  /\ lastOp.op = "handleSubmit"
  /\ editingWidget = EditedWidget1
  /\ editingWidget.request_body # saved.request_body
  /\ saved.request_body = ReportIdR1
  /\ Len(testCalls) = 1
  /\ testCalls[1].request.request_body = NullStr
  /\ testCalls[1].request.api_key_header = XApiKey
  /\ testCalls[1].request.api_key = NullStr

(***************************************************************************)
(*                     Properties of detectContentType                     *)
(***************************************************************************)
\* A call returned one of the five kinds, and a call with the arguments of
\* an earlier call returns what that call returned.
DetectStep ==
  /\ detected' \in ContentKinds
  /\ (detected # "none" /\ detectArgs' = detectArgs) => detected' = detected

StrippedUrl == BeforeFirst(ToLowerCase(detectArgs.url), "?")

\* C15: whatever the content, detectContentType(content, url) is image when
\* url, lower-cased and without everything from the first '?' on, ends in
\* .png .jpg .jpeg .gif .webp .svg .bmp or .ico (foo.png?x=1 is image);
\* with the same stripping .md and .markdown give markdown, .csv gives csv,
\* .html and .htm give html.
C15_UrlExtensionWins ==
  (detected # "none" /\ Truthy(detectArgs.url)) =>
    /\ (\E ext \in { <<".","p","n","g">>, <<".","j","p","g">>, <<".","j","p","e","g">>, <<".","g","i","f">>,
                     <<".","w","e","b","p">>, <<".","s","v","g">>, <<".","b","m","p">>, <<".","i","c","o">> } :
          EndsWith(StrippedUrl, ext)) => detected = "image"
    /\ (EndsWith(StrippedUrl, <<".","m","d">>)
          \/ EndsWith(StrippedUrl, <<".","m","a","r","k","d","o","w","n">>)) => detected = "markdown"
    /\ EndsWith(StrippedUrl, <<".","c","s","v">>) => detected = "csv"
    /\ (EndsWith(StrippedUrl, <<".","h","t","m","l">>)
          \/ EndsWith(StrippedUrl, <<".","h","t","m">>)) => detected = "html"
    /\ detectArgs.url = <<"f","o","o",".","p","n","g","?","x","=","1">> => detected = "image"
    /\ detectArgs.url = <<"R",".","M","a","r","k","d","o","w","n","?","v","=","2">> => detected = "markdown"
    /\ detectArgs.url = <<"t",".","c","s","v","?","x">> => detected = "csv"
    /\ detectArgs.url = <<"P",".","H","T","M">> => detected = "html"

\* A content the heuristics call markdown, with the URL foo.png?x=1: image.
C15_Witness ==
  /\ detectArgs = [content |-> <<"#"," ","T","i","t","l","e">>,
                   url |-> <<"f","o","o",".","p","n","g","?","x","=","1">>]
  /\ detectContentType(detectArgs.content, NullStr) = "markdown"
  /\ detected = "image"

\* The kind of the first content rule that matches, in the order of the
\* claim.
FirstContentRule(trimmed) ==
  IF HtmlStart(trimmed) THEN "html"
  ELSE IF CsvLike(trimmed) THEN "csv"
  ELSE IF MarkdownLike(trimmed) THEN "markdown"
  ELSE IF TagInside(trimmed) THEN "html"
  ELSE "markdown"

\* C20: when no URL rule applies, detectContentType returns the kind of the
\* first matching rule in the order: leading doctype or html tag -> html;
\* CSV heuristic -> csv; markdown markers -> markdown; a tag-like substring
\* -> html; otherwise markdown. Content that is both CSV and markdown is
\* csv, a doctype wins over CSV, plain text is markdown.
C20_ContentRuleOrder ==
  (detected # "none" /\ UrlRule(detectArgs.url) = "none") =>
    /\ detected = FirstContentRule(Trim(detectArgs.content))
    /\ detectArgs.content = <<"-"," ","a",",","b","\n","-"," ","c",",","d">>
         => detected = "csv"
    /\ detectArgs.content = <<"<","!","d","o","c","t","y","p","e"," ","a",",","b","\n","c",",","d">>
         => detected = "html"
    /\ detectArgs.content = <<"h","e","l","l","o">> => detected = "markdown"
    /\ detectArgs.content = <<"x"," ","<","b",">","y","<","/","b",">">> => detected = "html"
    /\ detectArgs.content = <<"#"," ","T","i","t","l","e">> => detected = "markdown"

\* A list of two items with one comma each, and a URL no rule applies to:
\* the CSV rule and a markdown marker both match, the call returned csv.
C20_Witness ==
  /\ detectArgs = [content |-> <<"-"," ","a",",","b","\n","-"," ","c",",","d">>,
                   url |-> <<"q",".","t","x","t">>]
  /\ CsvLike(detectArgs.content) /\ MarkdownLike(detectArgs.content)
  /\ detected = "csv"

(***************************************************************************)
(*                          Properties of parseCSV                         *)
(***************************************************************************)
\* The two texts of the claim.
TwoLines == <<"a",",","b","\n","1",",","2">>
QuotedField == <<"\"","a",",","\"","\"","b",",","c","\"","\"","\"">>

\* C16, as amended: parseCSV on a,b / 1,2 returns [[a,b],[1,2]]; on the
\* lone quoted field "a,""b,c""" it returns one row with exactly one field,
\* a,"b,c" : the comma inside the quotes does not split the field, and each
\* of the two doubled quotes is one literal quote of the value.
C16_ParseExamples ==
  csvRows # <<>> =>
    /\ csvText = TwoLines => csvRows = << <<<<"a">>, <<"b">>>>, <<<<"1">>, <<"2">>>> >>
    /\ csvText = QuotedField => csvRows = << << <<"a",",","\"","b",",","c","\"">> >> >>

\* C16, as stated: the value of that one field is a,"b,c (one literal
\* quote only).
C16_AsStated ==
  csvRows # <<>> =>
    /\ csvText = TwoLines => csvRows = << <<<<"a">>, <<"b">>>>, <<<<"1">>, <<"2">>>> >>
    /\ csvText = QuotedField => csvRows = << << <<"a",",","\"","b",",","c">> >> >>

\* parseCSV returned for the quoted field: one row of one field.
C16_Witness ==
  /\ csvText = QuotedField
  /\ Len(csvRows) = 1
  /\ Len(csvRows[1]) = 1
  /\ Len(csvRows[1][1]) = 7

(***************************************************************************)
(*                   Properties of the removal of widgets                  *)
(***************************************************************************)
\* A backend call deleteWidget was issued for a run of the handler only if
\* the user had confirmed, and a declined run issued none.
CallOnlyIfConfirmed ==
  \A c \in 1..Len(deletes) :
    /\ deletes[c].status # "declined" => deletes[c].confirmed
    /\ ~deletes[c].confirmed => deletes[c].status = "declined"

\* The step in which handleDeleteWidget runs up to its return or its await
\* leaves the widget list unchanged.
DeleteStartStep ==
  Len(deletes') > Len(deletes) => widgets' = widgets

\* The step in which a deleteWidget call fails leaves the widget list
\* unchanged; the one in which it succeeds removes the widgets with the id of
\* the call and keeps every other widget, unchanged and in order.
DeleteEndStep ==
  \A c \in 1..Len(deletes) :
    (deletes[c].status = "inflight" /\ deletes'[c].status # "inflight") =>
      IF deletes'[c].status = "failed"
      THEN widgets' = widgets
      ELSE /\ \A k \in 1..Len(widgets') : widgets'[k].id # deletes[c].id
           /\ LET kept == { k \in 1..Len(widgets) : widgets[k].id # deletes[c].id }
              IN  /\ Len(widgets') = Cardinality(kept)
                  /\ \A k \in kept :
                       widgets'[Cardinality({ j \in kept : j <= k })] = widgets[k]

\* C17: handleDeleteWidget issues the deleteWidget call only after the user
\* confirmed; when the user declines no call is made and the widget list is
\* unchanged; when the call fails the widget stays in the list; when it
\* succeeds exactly that widget is removed and every other is unchanged.
C17_DeleteAfterConfirm ==
  /\ []CallOnlyIfConfirmed
  /\ [][DeleteStartStep /\ DeleteEndStep]_vars

\* Of two widgets, the grid moved both; the removal of w1 was declined
\* once, then confirmed and carried out: w2 is left with its moved layout.
C17_Witness ==
  /\ Len(deletes) = 2
  /\ deletes[1] = [id |-> "w1", confirmed |-> FALSE, status |-> "declined"]
  /\ deletes[2] = [id |-> "w1", confirmed |-> TRUE, status |-> "ok"]
  /\ Len(widgets) = 1
  /\ widgets[1].id = "w2"
  /\ widgets[1].layout.x # BackendWidget2.layout.x

(***************************************************************************)
(*                 Properties of the contentType held                      *)
(***************************************************************************)
\* The outcome of a completed fetch, read from what it returned: a rejected
\* call or a backend error, an image, a text, or no content.
Outcome(done) ==
  IF done.kind = "rejected" THEN "rejected"
  ELSE IF Truthy(done.result.error) THEN "error"
  ELSE IF Truthy(done.result.content_url) /\ isImageUrl(done.result.content_url)
       THEN "image"
  ELSE IF Truthy(done.result.html_content) THEN "text"
  ELSE "empty"

\* The kind derived from a text or image outcome.
DerivedKind(done) ==
  IF Outcome(done) = "image" THEN "image"
  ELSE detectContentType(done.result.html_content, done.result.content_url)

\* C18: after every fetch that completes without being superseded,
\* whatever its outcome, contentType is the kind derived from that fetch's
\* response (none, unknown, for an outcome without content); the kind of
\* an earlier fetch never remains.
C18_KindFromLatestFetch ==
  (mounted /\ lastCompletion.kind # "none" /\ ~lastCompletion.superseded
     /\ lastCompletion.e = Len(effects)) =>
    contentType = (IF Outcome(lastCompletion) \in {"image", "text"}
                   THEN DerivedKind(lastCompletion) ELSE "unknown")

(***************************************************************************)
(*              Properties of handleLayoutChange's update                  *)
(***************************************************************************)
\* The step of one handleLayoutChange(L) call, L being the layout of the
\* event it logs: the widget list keeps its length and order; a widget
\* whose id is in L takes x, y, w, h of L's item and keeps its minimums and
\* every other field; a widget whose id is not in L is unchanged; the
\* pending snapshot is L; no network call is issued or completed.
LayoutStep ==
  (Len(events') = Len(events) + 1) =>
    LET L == events'[Len(events')].layout
    IN  /\ Len(widgets') = Len(widgets)
        /\ \A k \in 1..Len(widgets) :
             LET before == widgets[k]
                 after == widgets'[k]
                 items == { j \in 1..Len(L) : L[j].i = before.id }
             IN  /\ after.id = before.id
                 /\ after.name = before.name
                 /\ after.layout.minW = before.layout.minW
                 /\ after.layout.minH = before.layout.minH
                 /\ \A j \in items :
                      /\ after.layout.x = L[j].x
                      /\ after.layout.y = L[j].y
                      /\ after.layout.w = L[j].w
                      /\ after.layout.h = L[j].h
                 /\ (items = {}) => after = before
        /\ pendingLayoutRef' = Ref(L)
        /\ calls' = calls

\* C19: right after handleLayoutChange(L), before any timer fires or call
\* completes, each widget whose id is in L has L's x, y, w, h with its minW,
\* minH and other fields as before, each other widget is unchanged, the
\* list has the same members in the same order, and the pending snapshot
\* is L.
C19_LayoutChangeFrame == [][LayoutStep]_vars

\* A layout change that carried an item for w1 only, without minimums: w1
\* has the item's box and its own minimums, w2 is as the backend gave it.
C19_Witness ==
  /\ events # <<>>
  /\ Len(widgets) = 2
  /\ LET L == events[Len(events)].layout
     IN  /\ Len(L) = 1
         /\ L[1].i = "w1"
         /\ L[1].minW = Undefined
         /\ pendingLayoutRef = Ref(L)
  /\ widgets[1].layout = [x |-> 6, y |-> 3, w |-> 7, h |-> 8, minW |-> 2, minH |-> 2]
  /\ widgets[1].name = "Sales"
  /\ widgets[2] = BackendWidget2

(***************************************************************************)
(*                     Properties of the CSV detection                     *)
(***************************************************************************)
NonEmptyLine(line) == line # <<>>

\* The CSV rule as the claim words it: up to the first 5 non-empty lines
\* of the trimmed content, the same strictly positive number of commas on
\* every one of them.
CsvRuleAsStated(trimmed) ==
  LET nonEmpty == SelectSeq(Split(trimmed, "\n"), NonEmptyLine)
      sampled == SubSeq(nonEmpty, 1, IF Len(nonEmpty) < 5 THEN Len(nonEmpty) ELSE 5)
  IN  /\ Len(sampled) >= 1
      /\ \A k \in 1..Len(sampled) :
           /\ CountCommas(sampled[k]) = CountCommas(sampled[1])
           /\ CountCommas(sampled[k]) > 0

\* C21: where the CSV rule decides (no URL rule applies, no leading
\* doctype or html tag), detectContentType answers csv exactly when each of
\* the first 5 non-empty lines of the trimmed content has the same strictly
\* positive number of commas; a single line with a comma is csv, and so
\* are lines with commas separated by blank lines.
C21_CsvRule ==
  (/\ detected # "none"
   /\ UrlRule(detectArgs.url) = "none"
   /\ ~HtmlStart(Trim(detectArgs.content))) =>
    (detected = "csv" <=> CsvRuleAsStated(Trim(detectArgs.content)))

(***************************************************************************)
(*                    Properties of parseCSV's rows                        *)
(***************************************************************************)
\* The double quotes among s[1..n].
QuoteCount(s, n) == Cardinality({ k \in 1..n : s[k] = "\"" })

\* The commas of a line that are outside double quotes: those with an even
\* number of quote characters before them.
CommasOutsideQuotes(line) ==
  Cardinality({ k \in 1..Len(line) :
                  line[k] = "," /\ QuoteCount(line, k - 1) % 2 = 0 })

\* Two quote characters next to each other somewhere in the line.
HasAdjacentQuotes(line) ==
  \E k \in 1..(Len(line) - 1) : line[k] = "\"" /\ line[k + 1] = "\""

\* The quote characters in the values of a row.
QuotesInRow(row) ==
  LET counts == [f \in 1..Len(row) |-> QuoteCount(row[f], Len(row[f]))]
      Sum[f \in 0..Len(row)] == IF f = 0 THEN 0 ELSE Sum[f - 1] + counts[f]
  IN  Sum[Len(row)]

\* C22: parseCSV returns one row per line of the trimmed text; each row
\* has 1 + (commas of its line outside double quotes) fields, whatever the
\* other rows have; no field starts or ends with whitespace; and a quote
\* that delimits a field is not in its value: a line without two adjacent
\* quotes gives values without a quote, and a value holds at most one quote
\* per doubled quote of the line.
C22_ParseRows ==
  csvRows # <<>> =>
    LET lines == Split(Trim(csvText), "\n")
    IN  /\ Len(csvRows) = Len(lines)
        /\ \A k \in 1..Len(csvRows) :
             /\ Len(csvRows[k]) = 1 + CommasOutsideQuotes(lines[k])
             /\ \A f \in 1..Len(csvRows[k]) :
                  csvRows[k][f] = Trim(csvRows[k][f])
             /\ ~HasAdjacentQuotes(lines[k]) => QuotesInRow(csvRows[k]) = 0
             /\ 2 * QuotesInRow(csvRows[k]) <= QuoteCount(lines[k], Len(lines[k]))

\* parseCSV returned for a text of two lines with blanks around the
\* fields, a quoted field and a doubled quote: a row of three fields and a
\* row of one.
C22_Witness ==
  /\ csvText = <<" ","x"," ",","," ","\"","y"," ","z","\""," ",",","\n","\"","p",
                 "\"","\"","q","\"">>
  /\ csvRows = << << <<"x">>, <<"y"," ","z">>, <<>> >>,
                  << <<"p","\"","q">> >> >>

(***************************************************************************)
(*                  Properties of extractValueFromPath                     *)
(***************************************************************************)
\* What one segment leads to from a value: the value of that key of an
\* object, the item of an array at the index the segment parses to, and
\* nothing otherwise (a missing key, an index out of range, a segment that
\* is no integer, a primitive, null or undefined).
Child(v, key) ==
  CASE v.t = "object" ->
         { v.kids[k].v : k \in { j \in 1..Len(v.kids) : v.kids[j].k = key } }
    [] v.t = "array" ->
         { v.kids[n + 1].v :
             n \in { m \in 0..(Len(v.kids) - 1) :
                       ~ParseInt(key).nan /\ ParseInt(key).value = m } }
    [] OTHER -> {}

\* Where the segments keys[i..] lead from v: one value when the traversal
\* completes, none when it cannot.
RECURSIVE Ends(_, _, _)
Ends(v, keys, i) ==
  IF i > Len(keys) THEN {v}
  ELSE UNION { Ends(c, keys, i + 1) : c \in Child(v, keys[i]) }

\* C23: every call of extractValueFromPath returns, and it returns the
\* empty string whenever the traversal cannot complete (a missing key; a
\* primitive, null or undefined before the last segment; a segment that is
\* no integer on an array; an index out of range) or ends on a value that
\* is no string; otherwise it returns the string the traversal ends on.
C23_ExtractTotal ==
  extracted.called =>
    LET ends == Ends(extractArgs.data, Split(extractArgs.path, "."), 1)
        strings == { e \in ends : e.t = "string" }
    IN  /\ IF strings = {} THEN extracted.value = <<>>
           ELSE \E e \in strings : extracted.value = e.s
        /\ (extractArgs.data = ExamplePayload /\ extractArgs.path = <<"q">>)
             => extracted.value = <<>>
        /\ (extractArgs.data = ExamplePayload /\ extractArgs.path = <<"d","a","t","a",".","u","r","l",".","z">>)
             => extracted.value = <<>>
        /\ (extractArgs.data = ExamplePayload /\ extractArgs.path = <<"l",".","x">>)
             => extracted.value = <<>>
        /\ (extractArgs.data = ExamplePayload /\ extractArgs.path = <<"l",".","9">>)
             => extracted.value = <<>>
        /\ (extractArgs.data = ExamplePayload /\ extractArgs.path = <<"d","a","t","a",".","n">>)
             => extracted.value = <<>>
        /\ (extractArgs.data = ExamplePayload /\ extractArgs.path = <<"d","a","t","a">>)
             => extracted.value = <<>>
        /\ (extractArgs.data = ExamplePayload /\ extractArgs.path = <<"l">>)
             => extracted.value = <<>>
        /\ (extractArgs.data = JNull /\ extractArgs.path = <<"a">>)
             => extracted.value = <<>>
        /\ (extractArgs.data = JStr(HttpsO) /\ extractArgs.path = <<"0">>)
             => extracted.value = <<>>

\* The call for the index 9 of the two-item array l returned ''.
C23_Witness ==
  /\ extracted.called
  /\ extractArgs.data = ExamplePayload
  /\ extractArgs.path = <<"l",".","9">>
  /\ extracted.value = <<>>

(***************************************************************************)
(*                   Properties of the debounce timer                      *)
(***************************************************************************)
\* At most one timer is armed, and while one is armed the pending snapshot
\* is the layout of the most recent event.
OneTimerArmed ==
  /\ Cardinality(timers) <= 1
  /\ timers # {} =>
       /\ ~pendingLayoutRef.isNull
       /\ events # <<>>
       /\ pendingLayoutRef.layout = events[Len(events)].layout

\* A layout-change event leaves the timer it arms and none armed before;
\* a timer that fires issues one call at most and leaves no snapshot.
TimerStep ==
  /\ (Len(events') = Len(events) + 1) =>
       /\ timers' = { [id |-> saveTimeoutRef', due |-> now + DebounceMs] }
       /\ timers' \cap timers = {}
  /\ (timers' # timers /\ timers' \subseteq timers) =>
       /\ Len(calls') <= Len(calls) + 1
       /\ pendingLayoutRef'.isNull

\* C25: in every reachable state of the Dashboard at most one debounce
\* timer is armed; each layout-change event cancels the armed timer before
\* arming a new one; while a timer is armed the pending snapshot is
\* non-null and is the layout of the most recent event; and a timer that
\* fires issues at most one persistence call and clears the snapshot.
C25_OneDebounceTimer == []OneTimerArmed /\ [][TimerStep]_vars

\* A second layout change arrived while the timer of the first was armed:
\* one timer is armed, the second one, and the snapshot is the second
\* layout.
C25_Witness ==
  /\ Len(events) = 2
  /\ events[2].t - events[1].t < DebounceMs
  /\ events[2].layout # events[1].layout
  /\ timers = { [id |-> 2, due |-> events[2].t + DebounceMs] }
  /\ pendingLayoutRef = Ref(events[2].layout)
  /\ calls = <<>>

(***************************************************************************)
(*              Properties of what saveLayout sends                        *)
(***************************************************************************)
\* The in-memory widgets with that id.
WidgetsWithId(id) == { k \in 1..Len(widgets) : widgets[k].id = id }

\* C27: a call issued by the timer with no widget added, edited or deleted
\* since the last layout change (and no later change) carries, for each
\* widget, that widget's in-memory layout in all six fields x, y, w, h,
\* minW and minH, also when the grid's item has no minimums or other
\* minimums than the widget's.
C27_SentEqualsMemory ==
  \A c \in 1..Len(calls) :
    (calls[c].ev = Len(events) /\ deletes = <<>>) =>
      \A k \in 1..Len(calls[c].widgets) :
        \A m \in WidgetsWithId(calls[c].widgets[k].id) :
          widgets[m].layout = calls[c].widgets[k].layout

(***************************************************************************)
(*                  Properties of HtmlWidget's loading flag                *)
(***************************************************************************)
\* While the component is mounted: loading is true before the first fetch
\* and while the latest fetch is in flight, false once that fetch is done.
LoadingTracksLatest ==
  mounted =>
    /\ effects = <<>> => loading
    /\ effects # <<>> =>
         (loading <=> effects[Len(effects)].status = "inflight")

\* A completion of a superseded fetch leaves loading as it is; a completion
\* of the latest fetch of a mounted component sets it to false.
CompletionStep ==
  \A e \in 1..Len(effects) :
    (effects[e].status = "inflight" /\ effects'[e].status = "done") =>
      IF Superseded(e) THEN loading' = loading ELSE ~loading'

\* C29: loading is true from the start of the latest content fetch until
\* that fetch resolves or rejects and false once it has; the completion of
\* a superseded fetch never sets loading to false while the latest fetch
\* is in flight; when the latest fetch completes, loading becomes false.
C29_LoadingFlag == []LoadingTracksLatest /\ [][CompletionStep]_vars

\* The fetch for the first widgetId completed after the widgetId changed;
\* the second fetch is in flight and loading is still true.
C29_Witness ==
  /\ mounted
  /\ Len(effects) = 2
  /\ effects[1].status = "done" /\ effects[1].cancelled
  /\ effects[2].status = "inflight"
  /\ lastCompletion.e = 1 /\ lastCompletion.superseded
  /\ loading

(***************************************************************************)
(*               Properties of what HtmlWidget can render                  *)
(***************************************************************************)
\* C30: in every reachable state of HtmlWidget, when loading is false and
\* error is null there is something to render (contentType image with a
\* contentUrl, or contentType html, markdown or csv with a content), and
\* when error is non-null, content and contentUrl are both null.
C30_SomethingToRender ==
  /\ (~loading /\ error = NullStr) =>
       \/ contentType = "image" /\ contentUrl # NullStr
       \/ contentType \in {"html", "markdown", "csv"} /\ content # NullStr
  /\ error # NullStr => (content = NullStr /\ contentUrl = NullStr)

\* A second fetch gave a CSV text: nothing is loading, no error, the kind
\* is csv and the content is held.
C30_Witness ==
  /\ Len(effects) = 2
  /\ lastCompletion.e = 2 /\ lastCompletion.kind = "resolved"
  /\ ~loading
  /\ error = NullStr
  /\ contentType = "csv"
  /\ content = <<"a",",","b","\n","1",",","2">>

(***************************************************************************)
(*          Properties of layout persistence and widget removal            *)
(***************************************************************************)
\* A step that issues a bulkUpdateLayout call: every id of its body is the
\* id of a widget of the in-memory list.
IssueStep ==
  (Len(calls') = Len(calls) + 1) =>
    \A k \in 1..Len(calls'[Len(calls')].widgets) :
      WidgetsWithId(calls'[Len(calls')].widgets[k].id) # {}

\* C26: every id carried by a bulkUpdateLayout call belongs to a widget
\* that is in the in-memory widget list when the call is issued, for every
\* interleaving of layout changes, timer firings and widget deletions.
C26_SentIdsInMemory == [][IssueStep]_vars

(***************************************************************************)
(*          Properties of layout changes and the saves of the modal        *)
(***************************************************************************)
\* C28: after any interleaving of layout changes, pending or failed layout
\* persistence and saves of the modal, each widget named by the most
\* recent layout-change event has in memory the x, y, w, h of that event's
\* item: a successful edit does not change a widget's in-memory layout.
C28_EditKeepsLayout ==
  events # <<>> =>
    LET L == events[Len(events)].layout
    IN  \A j \in 1..Len(L) : \A m \in WidgetsWithId(L[j].i) :
          /\ widgets[m].layout.x = L[j].x
          /\ widgets[m].layout.y = L[j].y
          /\ widgets[m].layout.w = L[j].w
          /\ widgets[m].layout.h = L[j].h

(***************************************************************************)
(*             Properties of the failures of backend calls                 *)
(***************************************************************************)
\* The entries of a log with status "failed".
Failed(log) == Cardinality({ c \in 1..Len(log) : log[c].status = "failed" })

\* Every rejected call of the Dashboard and of the modal ended in local
\* state: the list that failed to load left a message and no loading flag,
\* each failed layout save was logged, each failed delete and each failed
\* save of the modal raised an alert, the failed test call left its
\* message and no testing flag; no rejection left its handler.
FailuresHandled ==
  /\ unhandled = 0
  /\ (~dashLoading /\ backend = <<>>) => dashError # NullStr
  /\ dashError # NullStr => ~dashLoading
  /\ logged = Failed(calls)
  /\ alerts = Failed(deletes) + Failed(edits)
  /\ lastOp.op = "testRejected" =>
       /\ testCalls[lastOp.call].status = "rejected"
       /\ testError # NullStr
       /\ ~testing

\* The step in which a content fetch rejects: the message is set and
\* loading is cleared, unless the fetch was superseded (a later fetch
\* started, or the component was unmounted): then the rejection is caught
\* and dropped, and error and loading stay as they are.
RejectedFetchStep ==
  \A e \in 1..Len(effects) :
    (/\ effects[e].status = "inflight" /\ effects'[e].status = "done"
     /\ lastCompletion'.kind = "rejected") =>
      IF Superseded(e)
      THEN UNCHANGED <<error, loading, content, contentUrl, contentType>>
      ELSE error' = LoadErrorMessage(lastCompletion'.err) /\ ~loading'

\* The same step as the claim words it: whatever fetch rejects, a message
\* is set and loading is cleared.
RejectedFetchStepAsStated ==
  \A e \in 1..Len(effects) :
    (/\ effects[e].status = "inflight" /\ effects'[e].status = "done"
     /\ lastCompletion'.kind = "rejected") =>
      (error' # NullStr /\ ~loading')

\* C24, as amended: a rejected backend call of any of the six operations
\* is caught in the handler that issued it; it ends in local state (error
\* message, alert or log) and the operation's loading or testing flag is
\* cleared, except for a content fetch that was superseded, whose
\* rejection is caught and dropped without touching error or loading.
C24_FailuresCaught == []FailuresHandled /\ [][RejectedFetchStep]_vars

\* C24, as stated: every rejected call, a superseded content fetch
\* included, ends in local state with the flag cleared.
C24_AsStated == []FailuresHandled /\ [][RejectedFetchStepAsStated]_vars

\* The fetch for the first widgetId rejected after the widgetId changed:
\* the second fetch is in flight, no message is set, loading is true.
C24_Witness ==
  /\ mounted
  /\ Len(effects) = 2
  /\ lastCompletion.kind = "rejected"
  /\ lastCompletion.e = 1
  /\ lastCompletion.superseded
  /\ effects[2].status = "inflight"
  /\ error = NullStr
  /\ loading

\* A step of handleLayoutChange or of the layout persistence (the timer
\* armed, cleared or fired, a bulkUpdateLayout call issued or completed).
LayoutOrPersistStep == events' # events \/ timers' # timers \/ calls' # calls

\* A step in which an updateWidget call of handleSaveWidget resolved.
EditSavedStep ==
  \E c \in 1..Len(edits) :
    /\ edits[c].id # NoTarget
    /\ edits[c].status = "inflight"
    /\ edits'[c].status = "ok"

\* The content fetches issued in the step.
IssuedInStep ==
  { contentFetches'[n] : n \in (Len(contentFetches) + 1)..Len(contentFetches') }

ContentFetchStep ==
  /\ (LayoutOrPersistStep \/ EditSavedStep) =>
       (contentFetches' = contentFetches /\ instances' = instances)
  /\ \A f \in IssuedInStep :
       \/ f.cause = "mount"
          /\ \A k \in 1..Len(instances) : instances[k].widgetId # f.id
       \/ f.cause = "widgetId"
          /\ \E k \in 1..Len(instances') :
               /\ instances'[k].widgetId = f.id
               /\ \E j \in 1..Len(instances) :
                    /\ instances[j].key = instances'[k].key
                    /\ instances[j].widgetId # f.id

\* C31: a content fetch for a widget is issued only when its HtmlWidget is
\* mounted or its widgetId changes; a layout change, a step of the layout
\* persistence and a successful edit-save of a widget issue no content
\* fetch and leave every widget's displayed content, contentType and error
\* as they were.
C31_FetchOnlyOnMount == [][ContentFetchStep]_vars

\* The first widget shows its page, a layout change was persisted and the
\* widget was then edited and saved: one fetch per widget was issued and
\* the page is still on display.
C31_Witness ==
  /\ Len(events) >= 1
  /\ \E c \in 1..Len(calls) : calls[c].status # "inflight"
  /\ Len(edits) >= 1 /\ edits[1].id = "w1" /\ edits[1].status = "ok"
  /\ Len(widgets) = 2 /\ widgets[1].name = "Renamed"
  /\ Len(contentFetches) = 2
  /\ Len(instances) = 2
  /\ instances[1].widgetId = "w1"
  /\ ~instances[1].loading
  /\ instances[1].content = <<"<","h","t","m","l",">">>
  /\ instances[1].contentType = "html"
  /\ instances[2].error = <<"b","o","o","m">>

====
